---- MODULE Spec2Model ----
(***************************************************************************)
(* Model of the yopflix-downloader-bun command line tool:                  *)
(*   - the download command (commands/download.ts): option parsing,        *)
(*     episode filtering, fallback, truncation, the sequential batch loop  *)
(*   - the download utilities (utils/download.ts): binary resolution,      *)
(*     skip-if-exists, retry with backoff, output path construction,       *)
(*     the season/episode label parser                                     *)
(*   - the French Stream provider (providers/frenchstream.ts): search,     *)
(*     media page, episode blocks, track merge, player URL normalisation   *)
(*   - the Yopflix provider (providers/yopflix.ts): search, details        *)
(*   - the provider registry (providers/index.ts) and the entry point      *)
(*     (index.ts, utils/args.ts)                                           *)
(*                                                                         *)
(* Strings are sequences of one-character strings, so that trimming,       *)
(* splitting, padding and regular-expression matching are computed.        *)
(* A value of type `number | undefined` is <<>> (undefined) or <<n>>.      *)
(***************************************************************************)
EXTENDS Integers, Sequences, FiniteSets, TLC

VARIABLES
    \* ---- download command (cmdDownload / downloadWithRetries / runYtDlp)
    pc,             \* position of the command's single control thread
    args,           \* parsed command line: titleId, query, season, episode, max
    searchResults,  \* what provider.search answers to the query
    resolvedId,     \* the local `resolvedId` of cmdDownload
    showName,       \* the local `showName` of cmdDownload
    env,            \* YTDLP_BIN override and the candidate names found on PATH
    episodes,       \* details.episodes
    onlySeason,     \* ensureNumber(args.season)
    onlyEpisodes,   \* splitCsvNumbers(args.episode)
    maxDownloads,   \* ensureNumber(args.max)
    filterOut,      \* what filterEpisodes returned (kept for the claims)
    filtered,       \* the local `filtered` of cmdDownload
    idx,            \* 1-based position of the for-of loop in `filtered`
    outputPath,     \* outputPath of the current iteration
    i,              \* attempt counter of downloadWithRetries
    lastError,      \* kind of the error caught last in downloadWithRetries
    delayMs,        \* delay computed in the catch block
    fs,             \* file system: kind of the entry at every output path
    running,        \* number of downloader processes spawned and not yet exited
    code,           \* exit code of the downloader process awaited last (proc.exited)
    failures,       \* the local `failures` of cmdDownload
    report,         \* lines printed by the end-of-batch report
    \* ---- bookkeeping about the current / finished iterations (for the claims)
    existedAtEntry, \* per started iteration: a non-empty regular file was at its
                    \* output path when downloadWithRetries was entered
    spawned,        \* downloader invocations made for the current episode
    failedAttempts, \* failed attempts counted for the current episode
    results,        \* outcome of every finished iteration, in order
    \* ---- pure functions applied to drawn inputs
    fn,             \* which function has been applied ("none" before the call)
    label,          \* input of parseSeasonEpisode
    parsed,         \* result of parseSeasonEpisode
    pathArgs,       \* input of buildOutputPath: show, season, episode
    path,           \* result of buildOutputPath
    tracks,         \* input of parseEpisodes: season number, raw vf / vostfr entries
    merged,         \* result of parseEpisodes
    arg,            \* argument of the provider / registry / entry point function applied
    ret             \* what that function returned

titleVars == <<searchResults, resolvedId, showName>>
batchVars == <<pc, titleVars, args, env, episodes, onlySeason, onlyEpisodes, maxDownloads,
               filterOut, filtered, idx, outputPath, i, lastError, delayMs, fs,
               running, code, failures, report, existedAtEntry, spawned,
               failedAttempts, results>>
fnVars == <<fn, label, parsed, pathArgs, path, tracks, merged, arg, ret>>
vars == <<batchVars, fnVars>>

----------------------------------------------------------------------------
(* Bounds of the model *)

MaxEpisodes == 2        \* longest details.episodes list of the batch model
MaxFilterEpisodes == 3  \* longest details.episodes list of the filtering model
MaxLabelLen == 6        \* longest label given to parseSeasonEpisode
MaxShowLen == 3         \* longest show name given to buildOutputPath
MaxTrack == 2           \* most entries of one language track
MaxUrlParts == 3        \* most fragments a raw player URL is put together from
MaxUpstream == 3        \* most records in one upstream search answer
MaxArgv == 3            \* most words on the command line
MaxVideos == 2          \* most videos in one list of a title's details

(* Program constants *)

Attempts == 3           \* downloadWithRetries(ep.url, outputPath, 3)
BaseDelayMs == 5000     \* const delayMs = 5000 * Math.pow(2, i)

----------------------------------------------------------------------------
(* Optional values and strings *)

Undefined == <<>>
Some(x) == <<x>>
IsDefined(x) == x # <<>>
\* JavaScript truthiness of a `number | undefined`
Truthy(x) == x # <<>> /\ x[1] # 0

Range(s) == {s[k] : k \in DOMAIN s}

DigitChars == <<"0", "1", "2", "3", "4", "5", "6", "7", "8", "9">>
IsDigit(c) == c \in Range(DigitChars)
DigitVal(c) == (CHOOSE k \in 1..10 : DigitChars[k] = c) - 1
IsSpace(c) == c = " "
AllDigits(s) == \A k \in DOMAIN s : IsDigit(s[k])

\* Number("007") = 7 on a string of decimal digits
RECURSIVE DecimalValue(_)
DecimalValue(ds) ==
    IF ds = <<>> THEN 0
    ELSE 10 * DecimalValue(SubSeq(ds, 1, Len(ds) - 1)) + DigitVal(ds[Len(ds)])

\* String(n) for a non-negative integer
RECURSIVE NumberToString(_)
NumberToString(n) ==
    IF n < 10 THEN <<DigitChars[n + 1]>>
    ELSE NumberToString(n \div 10) \o <<DigitChars[(n % 10) + 1]>>

\* s.padStart(2, "0")
PadStart2(s) == IF Len(s) >= 2 THEN s ELSE [k \in 1..(2 - Len(s)) |-> "0"] \o s

\* s.trim()
RECURSIVE TrimStart(_)
TrimStart(s) == IF s # <<>> /\ IsSpace(s[1]) THEN TrimStart(Tail(s)) ELSE s
RECURSIVE TrimEnd(_)
TrimEnd(s) ==
    IF s # <<>> /\ IsSpace(s[Len(s)]) THEN TrimEnd(SubSeq(s, 1, Len(s) - 1)) ELSE s
Trim(s) == TrimEnd(TrimStart(s))

\* s.split(",")
RECURSIVE Split(_, _)
Split(s, sep) ==
    IF \A k \in DOMAIN s : s[k] # sep THEN <<s>>
    ELSE LET p == CHOOSE k \in DOMAIN s : s[k] = sep /\ \A j \in 1..(k - 1) : s[j] # sep
         IN  <<SubSeq(s, 1, p - 1)>> \o Split(SubSeq(s, p + 1, Len(s)), sep)

\* Number(s) on strings of digits, blanks and other characters: blank strings
\* convert to 0, digit strings to their decimal value, anything else to NaN.
\* (Signs, fractions, exponents and radix prefixes are outside the alphabet.)
JsNumber(s) ==
    LET t == Trim(s)
    IN  IF t = <<>> THEN [finite |-> TRUE, n |-> 0]
        ELSE IF AllDigits(t) THEN [finite |-> TRUE, n |-> DecimalValue(t)]
        ELSE [finite |-> FALSE, n |-> 0]

----------------------------------------------------------------------------
(* utils/args.ts *)

\* A value of parseArgs' record: undefined (flag not given), true (flag
\* without a value) or a string.
ArgUndefined == [kind |-> "undefined", str |-> <<>>]
ArgTrue == [kind |-> "true", str |-> <<>>]
ArgString(s) == [kind |-> "string", str |-> s]

ensureNumber(val) ==
    IF val.kind # "string" THEN Undefined
    ELSE LET n == JsNumber(val.str)
         IN  IF n.finite THEN Some(n.n) ELSE Undefined

splitCsvNumbers(val) ==
    IF val.kind # "string" THEN Undefined
    ELSE LET parts == Split(val.str, ",")
             trimmed == [k \in DOMAIN parts |-> Trim(parts[k])]
             nonEmpty == SelectSeq(trimmed, LAMBDA s : Len(s) > 0)
             nums == [k \in DOMAIN nonEmpty |-> JsNumber(nonEmpty[k])]
             finite == SelectSeq(nums, LAMBDA n : n.finite)
         IN  Some([k \in DOMAIN finite |-> finite[k].n])

----------------------------------------------------------------------------
(* utils/download.ts *)

CandidateNames == <<"yt-dlp", "yt-dlp_linux", "yt-dlp_linux_aarch64">>

\* The first candidate whose `--version` probe exits with code 0, else null.
\* The probes are awaited one after the other and leave no state behind.
findExecutable(names, onPath) ==
    IF \E k \in DOMAIN names : names[k] \in onPath
    THEN Some(names[CHOOSE k \in DOMAIN names :
                        names[k] \in onPath /\ \A j \in 1..(k - 1) : names[j] \notin onPath])
    ELSE Undefined

\* Some(binary), or Undefined where the function throws
resolveYtDlpBinary(e) ==
    IF IsDefined(e.override) /\ Len(e.override[1]) > 0 THEN Some(e.override[1])
    ELSE findExecutable(CandidateNames, e.onPath)

\* stat(filePath): no entry (stat throws), a directory, an empty regular file
\* or a regular file with data
FileKinds == {"absent", "dir", "empty", "data"}
\* variant: the size test reversed (s.size === 0)
fileExistsSizeZero(files, filePath) == files[filePath] = "empty"

fileExists(files, filePath) == files[filePath] = "data"

IllegalChars == {"\\", "/", ":", "*", "?", "\"", "<", ">", "|"}
ReplaceIllegal(show) ==
    [k \in DOMAIN show |-> IF show[k] \in IllegalChars THEN "-" ELSE show[k]]

\* path.join: zero-length segments are ignored.  (Segments here never are "."
\* or "..", and never contain a separator: the show name has "/" replaced.)
PathJoin(segments) == SelectSeq(segments, LAMBDA s : Len(s) > 0)

SeasonWord == <<"S", "e", "a", "s", "o", "n", " ">>
Mp4 == <<"m", "p", "4">>

\* A path is the sequence of its segments.
buildOutputPath(baseDir, show, season, episode, ext) ==
    LET safeShow == Trim(ReplaceIllegal(show))
    IN  IF Truthy(season) /\ Truthy(episode)
        THEN LET s2 == PadStart2(NumberToString(season[1]))
                 e2 == PadStart2(NumberToString(episode[1]))
                 filename == safeShow \o <<" ", "-", " ", "S">> \o s2 \o <<"E">> \o e2
                             \o <<".">> \o ext
             IN  PathJoin(<<baseDir, safeShow, SeasonWord \o s2, filename>>)
        ELSE PathJoin(<<baseDir, safeShow, safeShow \o <<".">> \o ext>>)

\* variant: one attempt too many (i <= attempts)
HasBudgetInclusive(attempt, attempts) == attempt <= attempts

\* the loop condition of downloadWithRetries: i < attempts
HasBudget(attempt, attempts) == attempt < attempts

\* variant: the delay grows by the base delay per attempt instead of doubling
DelayLinear(attempt) == BaseDelayMs * (attempt + 1)

\* 5000 * Math.pow(2, i)
DelayFor(attempt) == BaseDelayMs * (2 ^ attempt)

\* name.match(/S(\d{1,2})\s*E(\d{1,3})/i) tried at position p: the ways the
\* pattern can match there, each given by the number of season digits, of
\* blanks and of episode digits it takes
MatchesAt(name, p, sChars, eChars) ==
    {m \in (1..2) \X (0..(Len(name) - p)) \X (1..3) :
        /\ name[p] \in sChars
        /\ p + m[1] + m[2] + 1 + m[3] <= Len(name)
        /\ \A k \in (p + 1)..(p + m[1]) : IsDigit(name[k])
        /\ \A k \in (p + m[1] + 1)..(p + m[1] + m[2]) : IsSpace(name[k])
        /\ name[p + m[1] + m[2] + 1] \in eChars
        /\ \A k \in (p + m[1] + m[2] + 2)..(p + m[1] + m[2] + 1 + m[3]) : IsDigit(name[k])}

\* the quantifiers are greedy: the engine takes as much as it can, first quantifier first
Greedier(m, n) ==
    \/ m[1] > n[1]
    \/ m[1] = n[1] /\ m[2] > n[2]
    \/ m[1] = n[1] /\ m[2] = n[2] /\ m[3] >= n[3]

\* The match at the leftmost position where the pattern matches: its two
\* capture groups, or Undefined (null) where it matches nowhere
RegexMatch(name, sChars, eChars) ==
    LET starts == {p \in DOMAIN name : name[p] \in sChars /\ MatchesAt(name, p, sChars, eChars) # {}}
    IN  IF starts = {} THEN Undefined
        ELSE LET p == CHOOSE q \in starts : \A r \in starts : q <= r
                 ms == MatchesAt(name, p, sChars, eChars)
                 m == CHOOSE x \in ms : \A y \in ms : Greedier(x, y)
             IN  Some([g1 |-> SubSeq(name, p + 1, p + m[1]),
                       g2 |-> SubSeq(name, p + m[1] + m[2] + 2,
                                     p + m[1] + m[2] + 1 + m[3])])

NoSeasonEpisode == [season |-> Undefined, episode |-> Undefined]

ParseWith(name, sChars, eChars) ==
    LET match == RegexMatch(name, sChars, eChars)
    IN  IF IsDefined(match)
        THEN LET season == JsNumber(match[1].g1)
                 episode == JsNumber(match[1].g2)
             IN  IF season.finite /\ episode.finite
                 THEN [season |-> Some(season.n), episode |-> Some(episode.n)]
                 ELSE NoSeasonEpisode
        ELSE NoSeasonEpisode

\* variant: the pattern without its i flag
parseSeasonEpisodeCaseSensitive(name) == ParseWith(name, {"S"}, {"E"})

parseSeasonEpisode(name) == ParseWith(name, {"S", "s"}, {"E", "e"})

----------------------------------------------------------------------------
(* providers/frenchstream.ts *)

Vf == <<"v", "f">>
Vostfr == <<"v", "o", "s", "t", "f", "r">>

\* The Episode parseEpisodeBlock pushes for an entry data-ep="epNum" whose
\* player URL resolved to url
BlockEpisode(language, seasonNumber, epNum, url) ==
    [id |-> language \o <<"-", "s">> \o NumberToString(seasonNumber) \o <<"e">> \o epNum,
     name |-> <<"S">> \o PadStart2(NumberToString(seasonNumber)) \o <<" ", "E">>
              \o PadStart2(epNum),
     season |-> Some(seasonNumber),
     episode |-> Some(JsNumber(epNum).n),
     url |-> url,
     language |-> language]

OrZero(x) == IF IsDefined(x) THEN x[1] ELSE 0

\* `S${ep.season ?? 0}E${ep.episode ?? 0}`
EpisodeKey(ep) ==
    <<"S">> \o NumberToString(OrZero(ep.season)) \o <<"E">> \o NumberToString(OrZero(ep.episode))

\* A Map is the sequence of its entries in insertion order; set() on a key
\* that is present replaces the value in place.
MapSet(map, key, value) ==
    IF \E k \in DOMAIN map : map[k].key = key
    THEN [k \in DOMAIN map |-> IF map[k].key = key THEN [key |-> key, value |-> value]
                               ELSE map[k]]
    ELSE Append(map, [key |-> key, value |-> value])

RECURSIVE MapSetEpisodes(_, _)
MapSetEpisodes(map, eps) ==
    IF eps = <<>> THEN map
    ELSE MapSetEpisodes(MapSet(map, EpisodeKey(Head(eps)), Head(eps)), Tail(eps))

MapValues(map) == [k \in DOMAIN map |-> map[k].value]

\* (a.season ?? 0) - (b.season ?? 0) || (a.episode ?? 0) - (b.episode ?? 0)
CompareEpisodes(a, b) ==
    IF OrZero(a.season) - OrZero(b.season) # 0
    THEN OrZero(a.season) - OrZero(b.season)
    ELSE OrZero(a.episode) - OrZero(b.episode)

\* Array.prototype.sort is stable: an element goes behind those not after it
RECURSIVE InsertSorted(_, _)
InsertSorted(sorted, ep) ==
    IF sorted = <<>> THEN <<ep>>
    ELSE IF CompareEpisodes(sorted[Len(sorted)], ep) <= 0 THEN Append(sorted, ep)
    ELSE Append(InsertSorted(SubSeq(sorted, 1, Len(sorted) - 1), ep), sorted[Len(sorted)])

RECURSIVE SortEpisodes(_)
SortEpisodes(list) ==
    IF list = <<>> THEN <<>>
    ELSE InsertSorted(SortEpisodes(SubSeq(list, 1, Len(list) - 1)), list[Len(list)])

\* variant: the tracks merged in the other order, vostfr overwriting vf
parseEpisodesVostfrLast(vfEpisodes, vostfrEpisodes) ==
    SortEpisodes(MapValues(MapSetEpisodes(MapSetEpisodes(<<>>, vfEpisodes), vostfrEpisodes)))

\* parseEpisodes from the two results of parseEpisodeBlock on
parseEpisodes(vfEpisodes, vostfrEpisodes) ==
    SortEpisodes(MapValues(MapSetEpisodes(MapSetEpisodes(<<>>, vostfrEpisodes), vfEpisodes)))

----------------------------------------------------------------------------
(* commands/download.ts *)

filterEpisodes(eps, opts) ==
    LET bySeason ==
            IF Truthy(opts.season)
            THEN SelectSeq(eps, LAMBDA ep : ep.season = opts.season)
            ELSE eps
    IN  IF IsDefined(opts.episodes) /\ Len(opts.episodes[1]) > 0
        THEN SelectSeq(bySeason, LAMBDA ep :
                 ep.episode # Undefined /\ ep.episode[1] \in Range(opts.episodes[1]))
        ELSE bySeason

\* variant: the cut taken from the end of the list (slice(-maxDownloads))
SliceBack(list, count) ==
    SubSeq(list, (IF count < Len(list) THEN Len(list) - count ELSE 0) + 1, Len(list))

\* filtered.slice(0, maxDownloads) for a count maxDownloads >= 0
SliceFront(list, count) ==
    SubSeq(list, 1, IF count < Len(list) THEN count ELSE Len(list))

\* a JavaScript value of type string | number | boolean | undefined
JsUndefined == [kind |-> "undefined"]
JsTrue == [kind |-> "true"]
JsNum(n) == [kind |-> "number", n |-> n]
JsStr(s) == [kind |-> "string", str |-> s]
\* !v is false
JsTruthy(v) ==
    \/ v.kind = "true"
    \/ v.kind = "number" /\ v.n # 0
    \/ v.kind = "string" /\ v.str # <<>>
\* the value of args.<key>
ArgValue(val) ==
    IF val.kind = "string" THEN JsStr(val.str)
    ELSE IF val.kind = "true" THEN JsTrue ELSE JsUndefined

\* results.find((r) => r.type === "series") ?? results[0]
Preferred(list) ==
    IF \E k \in DOMAIN list : list[k].type = "series"
    THEN Some(list[CHOOSE k \in DOMAIN list :
                       list[k].type = "series"
                       /\ \A j \in 1..(k - 1) : list[j].type # "series"])
    ELSE IF list = <<>> THEN Undefined ELSE Some(list[1])

\* download.ts 20-47: exit is process.exit(1); detailsName is details.name
Resolve(titleIdArg, queryArg, found, detailsName) ==
    LET numericId == ensureNumber(titleIdArg)
        given == IF numericId # Undefined THEN JsNum(numericId[1]) ELSE ArgValue(titleIdArg)
        none == [exit |-> TRUE, resolvedId |-> given, showName |-> <<>>]
    IN  IF JsTruthy(given)
        THEN [exit |-> FALSE, resolvedId |-> given, showName |-> detailsName]
        ELSE IF ~JsTruthy(ArgValue(queryArg)) THEN none
        ELSE IF Len(found) = 0 THEN none
        ELSE IF Preferred(found) = Undefined THEN none
        ELSE [exit |-> FALSE, resolvedId |-> Preferred(found)[1].id,
              showName |-> Preferred(found)[1].name]

ErrAfterRetries == <<"download", "failed", "after", "retries">>

----------------------------------------------------------------------------
(* Inputs of the download command *)

OutDir == <<"o", "u", "t">>
ShowName == <<"M", "y", ":", "S">>

EpisodeNumbers(s, e) == [season |-> s, episode |-> e]
NoNumbers == EpisodeNumbers(Undefined, Undefined)

\* Episodes as the providers build them: distinct ids, a name and a url of
\* their own, and season/episode numbers
MkEpisodes(nums) ==
    [k \in DOMAIN nums |->
        [id |-> k, name |-> <<"name", k>>, url |-> <<"url", k>>,
         season |-> nums[k].season, episode |-> nums[k].episode]]

EpisodeLists(maxLen, numbers) ==
    {MkEpisodes(nums) : nums \in UNION {[1..n -> numbers] : n \in 0..maxLen}}

BatchNumbers ==
    {NoNumbers, EpisodeNumbers(Some(0), Some(1)), EpisodeNumbers(Some(1), Some(1)),
     EpisodeNumbers(Some(1), Some(2))}
BatchArgs ==
    [titleId : {ArgString(<<"7">>)}, query : {ArgUndefined},
     season : {ArgUndefined, ArgString(<<"1">>)},
     episode : {ArgUndefined, ArgString(<<"2">>)},
     max : {ArgUndefined, ArgString(<<"1">>)}]

Envs ==
    { [override |-> Undefined, onPath |-> {}],
      [override |-> Some(<<>>), onPath |-> {"yt-dlp_linux"}],
      [override |-> Some(<<"b", "i", "n">>), onPath |-> {}] }

OutputPaths(numbers) ==
    {buildOutputPath(OutDir, ShowName, n.season, n.episode, Mp4) : n \in numbers}

\* File systems with at most one entry present at an output path
InitialFiles(paths) ==
    {[p \in paths |-> "absent"]}
    \cup {[p \in paths |-> IF p = q THEN kind ELSE "absent"] :
              q \in paths, kind \in FileKinds \ {"absent"}}

InitFn(labels, pathInputs, trackInputs) ==
    /\ fn = "none"
    /\ label \in labels
    /\ parsed = NoSeasonEpisode
    /\ pathArgs \in pathInputs
    /\ path = <<>>
    /\ tracks \in trackInputs
    /\ merged = <<>>
    /\ arg = <<>>
    /\ ret = <<>>

FnIdle ==
    InitFn({<<>>}, {[show |-> <<>>, season |-> Undefined, episode |-> Undefined]},
           {[seasonNumber |-> 1, vf |-> <<>>, vostfr |-> <<>>]})

InitCommand(argSet, searches, lists, envs, files) ==
    /\ pc = "parse"
    /\ args \in argSet
    /\ searchResults \in searches
    /\ resolvedId = JsUndefined
    /\ showName = <<>>
    /\ env \in envs
    /\ episodes \in lists
    /\ onlySeason = Undefined
    /\ onlyEpisodes = Undefined
    /\ maxDownloads = Undefined
    /\ filterOut = <<>>
    /\ filtered = <<>>
    /\ idx = 0
    /\ outputPath = <<>>
    /\ i = 0
    /\ lastError = "none"
    /\ delayMs = 0
    /\ fs \in files
    /\ running = 0
    /\ code = Undefined
    /\ failures = <<>>
    /\ report = <<>>
    /\ existedAtEntry = <<>>
    /\ spawned = 0
    /\ failedAttempts = 0
    /\ results = <<>>
    /\ FnIdle

Init ==
    InitCommand(BatchArgs, {<<>>}, EpisodeLists(MaxEpisodes, BatchNumbers), Envs,
                InitialFiles(OutputPaths(BatchNumbers)))

----------------------------------------------------------------------------
(* cmdDownload: one action per step of its control thread *)

\* download.ts 10-19: the options read from the parsed command line
ParseOptions ==
    /\ pc = "parse"
    /\ onlySeason' = ensureNumber(args.season)
    /\ onlyEpisodes' = splitCsvNumbers(args.episode)
    /\ maxDownloads' = ensureNumber(args.max)
    /\ pc' = "resolve"
    /\ UNCHANGED <<titleVars, args, env, episodes, filterOut, filtered, idx, outputPath, i,
                   lastError, delayMs, fs, running, code, failures, report,
                   existedAtEntry, spawned, failedAttempts, results, fnVars>>

\* download.ts 20-47: the title is the one named by --titleId or, without a
\* usable id, one picked from the results of the search for --query;
\* showName ?? details.name (line 47) is taken here too
ResolveTitle ==
    /\ pc = "resolve"
    /\ LET r == Resolve(args.titleId, args.query, searchResults, ShowName)
       IN  /\ resolvedId' = r.resolvedId
           /\ showName' = r.showName
           /\ pc' = IF r.exit THEN "exit1" ELSE "details"
    /\ UNCHANGED <<searchResults, args, env, episodes, onlySeason, onlyEpisodes,
                   maxDownloads, filterOut, filtered, idx, outputPath, i, lastError,
                   delayMs, fs, running, code, failures, report, existedAtEntry,
                   spawned, failedAttempts, results, fnVars>>

\* download.ts 48-53: process.exit(1) when the title has no episode
NoEpisodes ==
    /\ pc = "details"
    /\ Len(episodes) = 0
    /\ pc' = "exit1"
    /\ UNCHANGED <<titleVars, args, env, episodes, onlySeason, onlyEpisodes, maxDownloads,
                   filterOut, filtered, idx, outputPath, i, lastError, delayMs,
                   fs, running, code, failures, report, existedAtEntry, spawned,
                   failedAttempts, results, fnVars>>

\* download.ts 56: let filtered = filterEpisodes(...)
Filter ==
    /\ pc = "details"
    /\ Len(episodes) # 0
    /\ filtered' = filterEpisodes(episodes, [season |-> onlySeason, episodes |-> onlyEpisodes])
    /\ filterOut' = filtered'
    /\ pc' = "fallback"
    /\ UNCHANGED <<titleVars, args, env, episodes, onlySeason, onlyEpisodes, maxDownloads,
                   idx, outputPath, i, lastError, delayMs, fs, running, code, failures,
                   report, existedAtEntry, spawned, failedAttempts, results, fnVars>>

\* variant: no fallback, an empty selection stays empty
FallbackOmitted ==
    /\ pc = "fallback"
    /\ pc' = "truncate"
    /\ UNCHANGED <<titleVars, args, env, episodes, onlySeason, onlyEpisodes, maxDownloads,
                   filterOut, filtered, idx, outputPath, i, lastError, delayMs,
                   fs, running, code, failures, report, existedAtEntry, spawned,
                   failedAttempts, results, fnVars>>

\* download.ts 57: if (filtered.length === 0) filtered = episodes
Fallback ==
    /\ pc = "fallback"
    /\ filtered' = IF Len(filtered) = 0 THEN episodes ELSE filtered
    /\ pc' = "truncate"
    /\ UNCHANGED <<titleVars, args, env, episodes, onlySeason, onlyEpisodes, maxDownloads,
                   filterOut, idx, outputPath, i, lastError, delayMs, fs, running, code,
                   failures, report, existedAtEntry, spawned, failedAttempts,
                   results, fnVars>>

\* download.ts 58-62: if (typeof maxDownloads === "number") filtered = filtered.slice(0, maxDownloads)
Truncate ==
    /\ pc = "truncate"
    /\ filtered' = IF IsDefined(maxDownloads) THEN SliceFront(filtered, maxDownloads[1])
                   ELSE filtered
    /\ failures' = <<>>
    /\ idx' = 0
    /\ pc' = "loop"
    /\ UNCHANGED <<titleVars, args, env, episodes, onlySeason, onlyEpisodes, maxDownloads,
                   filterOut, outputPath, i, lastError, delayMs, fs, running, code,
                   report, existedAtEntry, spawned, failedAttempts, results, fnVars>>

\* download.ts 64-68: the next element of the for-of loop; its output path;
\* ensureDirForFile creates the directories above it
NextEpisode ==
    /\ pc = "loop"
    /\ idx < Len(filtered)
    /\ idx' = idx + 1
    /\ outputPath' = buildOutputPath(OutDir, showName, filtered[idx'].season,
                                     filtered[idx'].episode, Mp4)
    /\ spawned' = 0
    /\ failedAttempts' = 0
    /\ existedAtEntry' = Append(existedAtEntry, fs[outputPath'] = "data")
    /\ code' = Undefined
    /\ pc' = "entry"
    /\ UNCHANGED <<titleVars, args, env, episodes, onlySeason, onlyEpisodes, maxDownloads,
                   filterOut, filtered, i, lastError, delayMs, fs, running,
                   failures, report, results, fnVars>>

\* download.ts (utils) 81-85: the file is there: return true
SkipExisting ==
    /\ pc = "entry"
    /\ fileExists(fs, outputPath)
    /\ results' = Append(results, "skipped")
    /\ pc' = "loop"
    /\ UNCHANGED <<titleVars, args, env, episodes, onlySeason, onlyEpisodes, maxDownloads,
                   filterOut, filtered, idx, outputPath, i, lastError, delayMs,
                   fs, running, code, failures, report, existedAtEntry, spawned,
                   failedAttempts, fnVars>>

\* utils 81-88: the file is not there: enter the attempt loop
StartAttempts ==
    /\ pc = "entry"
    /\ ~fileExists(fs, outputPath)
    /\ i' = 0
    /\ lastError' = "none"
    /\ pc' = "attempt"
    /\ UNCHANGED <<titleVars, args, env, episodes, onlySeason, onlyEpisodes, maxDownloads,
                   filterOut, filtered, idx, outputPath, delayMs, fs, running, code,
                   failures, report, existedAtEntry, spawned, failedAttempts,
                   results, fnVars>>

\* utils 88-90, 59, 35, 92-96: runYtDlp throws because no binary resolves; the
\* catch block of downloadWithRetries takes the error
ResolveFails ==
    /\ pc = "attempt"
    /\ HasBudget(i, Attempts)
    /\ resolveYtDlpBinary(env) = Undefined
    /\ lastError' = "no binary"
    /\ delayMs' = DelayFor(i)
    /\ failedAttempts' = failedAttempts + 1
    /\ pc' = "sleep"
    /\ UNCHANGED <<titleVars, args, env, episodes, onlySeason, onlyEpisodes, maxDownloads,
                   filterOut, filtered, idx, outputPath, i, fs, running, code, failures,
                   report, existedAtEntry, spawned, results, fnVars>>

\* the downloader is spawned and not awaited: the attempt counts as a success
\* at once
SpawnDetached ==
    /\ pc = "attempt"
    /\ HasBudget(i, Attempts)
    /\ resolveYtDlpBinary(env) # Undefined
    /\ running' = running + 1
    /\ spawned' = spawned + 1
    /\ code' = code
    /\ results' = Append(results, "downloaded")
    /\ pc' = "loop"
    /\ UNCHANGED <<titleVars, args, env, episodes, onlySeason, onlyEpisodes, maxDownloads,
                   filterOut, filtered, idx, outputPath, i, lastError, delayMs,
                   fs, failures, report, existedAtEntry, failedAttempts, fnVars>>
\* utils 88-90, 56-73: runYtDlp resolves the binary and spawns the downloader
Spawn ==
    /\ pc = "attempt"
    /\ HasBudget(i, Attempts)
    /\ resolveYtDlpBinary(env) # Undefined
    /\ running' = running + 1
    /\ spawned' = spawned + 1
    /\ code' = code
    /\ pc' = "running"
    /\ UNCHANGED <<titleVars, args, env, episodes, onlySeason, onlyEpisodes, maxDownloads,
                   filterOut, filtered, idx, outputPath, i, lastError, delayMs,
                   fs, failures, report, existedAtEntry, failedAttempts, results,
                   fnVars>>

\* What a downloader run can leave at its output file (--no-part writes to it
\* directly, so a failed run can leave data too)
AfterRun(kind) == IF kind = "dir" THEN {"dir"} ELSE {kind, "data"}

\* Exit codes other than 0 a downloader run ends with
NonZeroCodes == {1}

\* utils 74-77, 91: the process exits with code 0: return true
ExitZero ==
    /\ pc = "running"
    /\ running' = running - 1
    /\ code' = Some(0)
    /\ \E kind \in AfterRun(fs[outputPath]) : fs' = [fs EXCEPT ![outputPath] = kind]
    /\ results' = Append(results, "downloaded")
    /\ pc' = "loop"
    /\ UNCHANGED <<titleVars, args, env, episodes, onlySeason, onlyEpisodes, maxDownloads,
                   filterOut, filtered, idx, outputPath, i, lastError, delayMs,
                   failures, report, existedAtEntry, spawned, failedAttempts,
                   fnVars>>

\* utils 74-77, 92-96: the process exits with another code: runYtDlp throws,
\* the catch block takes the error
ExitNonZero ==
    /\ pc = "running"
    /\ running' = running - 1
    /\ \E c \in NonZeroCodes : code' = Some(c)
    /\ \E kind \in AfterRun(fs[outputPath]) : fs' = [fs EXCEPT ![outputPath] = kind]
    /\ lastError' = "exit code"
    /\ delayMs' = DelayFor(i)
    /\ failedAttempts' = failedAttempts + 1
    /\ pc' = "sleep"
    /\ UNCHANGED <<titleVars, args, env, episodes, onlySeason, onlyEpisodes, maxDownloads,
                   filterOut, filtered, idx, outputPath, i, failures, report,
                   existedAtEntry, spawned, results, fnVars>>

\* utils 96, 88: sleep(delayMs) elapses; i += 1
Wake ==
    /\ pc = "sleep"
    /\ i' = i + 1
    /\ pc' = "attempt"
    /\ UNCHANGED <<titleVars, args, env, episodes, onlySeason, onlyEpisodes, maxDownloads,
                   filterOut, filtered, idx, outputPath, lastError, delayMs, fs,
                   running, code, failures, report, existedAtEntry, spawned,
                   failedAttempts, results, fnVars>>

\* variant: the last error is rethrown once the budget is used up, which ends
\* the command
GiveUpThrows ==
    /\ pc = "attempt"
    /\ ~HasBudget(i, Attempts)
    /\ pc' = "exit1"
    /\ UNCHANGED <<titleVars, args, env, episodes, onlySeason, onlyEpisodes, maxDownloads,
                   filterOut, filtered, idx, outputPath, i, lastError, delayMs,
                   fs, running, code, failures, report, existedAtEntry, spawned,
                   failedAttempts, results, fnVars>>

\* utils 88, 99-100 and download.ts 69-71: the budget is used up: return
\* false; the caller records the failure
GiveUp ==
    /\ pc = "attempt"
    /\ ~HasBudget(i, Attempts)
    /\ failures' = Append(failures, [name |-> filtered[idx].name,
                                     url |-> filtered[idx].url,
                                     error |-> ErrAfterRetries])
    /\ results' = Append(results, "failed")
    /\ pc' = "loop"
    /\ UNCHANGED <<titleVars, args, env, episodes, onlySeason, onlyEpisodes, maxDownloads,
                   filterOut, filtered, idx, outputPath, i, lastError, delayMs,
                   fs, running, code, report, existedAtEntry, spawned, failedAttempts,
                   fnVars>>

\* the report leaves out the failure recorded last
ReportOmitsLast ==
    /\ pc = "loop"
    /\ ~(idx < Len(filtered))
    /\ report' = IF Len(failures) > 0
                 THEN <<[line |-> "completed with failures", count |-> Len(failures)]>>
                      \o [k \in 1..(Len(failures) - 1) |->
                             [line |-> "failure", name |-> failures[k].name,
                              url |-> failures[k].url, error |-> failures[k].error]]
                 ELSE <<[line |-> "all downloads completed"]>>
    /\ pc' = "done"
    /\ UNCHANGED <<titleVars, args, env, episodes, onlySeason, onlyEpisodes, maxDownloads,
                   filterOut, filtered, idx, outputPath, i, lastError, delayMs,
                   fs, running, code, failures, existedAtEntry, spawned, failedAttempts,
                   results, fnVars>>
\* download.ts 74-79: the end-of-batch report
Report ==
    /\ pc = "loop"
    /\ ~(idx < Len(filtered))
    /\ report' = IF Len(failures) > 0
                 THEN <<[line |-> "completed with failures", count |-> Len(failures)]>>
                      \o [k \in DOMAIN failures |->
                             [line |-> "failure", name |-> failures[k].name,
                              url |-> failures[k].url, error |-> failures[k].error]]
                 ELSE <<[line |-> "all downloads completed"]>>
    /\ pc' = "done"
    /\ UNCHANGED <<titleVars, args, env, episodes, onlySeason, onlyEpisodes, maxDownloads,
                   filterOut, filtered, idx, outputPath, i, lastError, delayMs,
                   fs, running, code, failures, existedAtEntry, spawned, failedAttempts,
                   results, fnVars>>

Next ==
    \/ ParseOptions
    \/ ResolveTitle
    \/ NoEpisodes
    \/ Filter
    \/ Fallback
    \/ Truncate
    \/ NextEpisode
    \/ SkipExisting
    \/ StartAttempts
    \/ ResolveFails
    \/ Spawn
    \/ ExitZero
    \/ ExitNonZero
    \/ Wake
    \/ GiveUp
    \/ Report

Spec == Init /\ [][Next]_vars

TypeOK ==
    /\ pc \in {"parse", "resolve", "details", "exit1", "fallback", "truncate", "loop", "entry",
               "attempt", "running", "sleep", "done"}
    /\ idx \in 0..Len(filtered)
    /\ i \in 0..Attempts
    /\ running \in 0..1

----------------------------------------------------------------------------
(* The filtering steps on their own, over a wider range of options *)

FilterNumbers ==
    {NoNumbers, EpisodeNumbers(Some(0), Some(1)), EpisodeNumbers(Some(1), Some(0)),
     EpisodeNumbers(Some(1), Some(1)), EpisodeNumbers(Some(1), Some(2))}
FilterArgs ==
    [titleId : {ArgString(<<"7">>)}, query : {ArgUndefined},
     season : {ArgUndefined, ArgTrue, ArgString(<<"0">>), ArgString(<<"1">>),
               ArgString(<<"0", "2">>), ArgString(<<"x">>)},
     episode : {ArgUndefined, ArgTrue, ArgString(<<"0">>), ArgString(<<"1", ",", "2">>),
                ArgString(<<" ", "2", ",", "x">>), ArgString(<<",">>)},
     max : {ArgUndefined, ArgTrue, ArgString(<<"0">>), ArgString(<<"1">>),
            ArgString(<<"2">>)}]

InitFilter ==
    InitCommand(FilterArgs, {<<>>}, EpisodeLists(MaxFilterEpisodes, FilterNumbers),
                {[override |-> Undefined, onPath |-> {"yt-dlp"}]},
                {[p \in OutputPaths(FilterNumbers) |-> "absent"]})

NextFilter ==
    \/ ParseOptions
    \/ ResolveTitle
    \/ NoEpisodes
    \/ Filter
    \/ Fallback
    \/ Truncate

SpecFilter == InitFilter /\ [][NextFilter]_vars

----------------------------------------------------------------------------
(* The pure functions, each applied once to an input drawn at the start *)

BatchIdle ==
    /\ pc = "parse"
    /\ args = [titleId |-> ArgUndefined, query |-> ArgUndefined, season |-> ArgUndefined,
               episode |-> ArgUndefined, max |-> ArgUndefined]
    /\ searchResults = <<>>
    /\ resolvedId = JsUndefined
    /\ showName = <<>>
    /\ env = [override |-> Undefined, onPath |-> {"yt-dlp"}]
    /\ episodes = <<>>
    /\ onlySeason = Undefined
    /\ onlyEpisodes = Undefined
    /\ maxDownloads = Undefined
    /\ filterOut = <<>>
    /\ filtered = <<>>
    /\ idx = 0
    /\ outputPath = <<>>
    /\ i = 0
    /\ lastError = "none"
    /\ delayMs = 0
    /\ fs = [p \in OutputPaths(BatchNumbers) |-> "absent"]
    /\ running = 0
    /\ code = Undefined
    /\ failures = <<>>
    /\ report = <<>>
    /\ existedAtEntry = <<>>
    /\ spawned = 0
    /\ failedAttempts = 0
    /\ results = <<>>

Strings(alphabet, maxLen) == UNION {[1..n -> alphabet] : n \in 0..maxLen}

\* ---- buildOutputPath
ShowChars == {"M", ":", " "}
ShowNames == {s \in Strings(ShowChars, MaxShowLen) : \E k \in DOMAIN s : ~IsSpace(s[k])}
PathNumbers == {Undefined, Some(0), Some(1), Some(12), Some(123)}

InitPath ==
    /\ BatchIdle
    /\ InitFn({<<>>}, [show : ShowNames, season : PathNumbers, episode : PathNumbers],
              {[seasonNumber |-> 1, vf |-> <<>>, vostfr |-> <<>>]})

BuildPath ==
    /\ fn = "none"
    /\ path' = buildOutputPath(OutDir, pathArgs.show, pathArgs.season, pathArgs.episode, Mp4)
    /\ fn' = "buildOutputPath"
    /\ UNCHANGED <<batchVars, label, parsed, pathArgs, tracks, merged, arg, ret>>

NextPath == BuildPath

SpecPath == InitPath /\ [][NextPath]_vars

\* ---- parseEpisodes
EpNums == {<<"1">>, <<"0", "1">>, <<"2">>, <<"0", "0">>}
SeasonNumbers == {0, 1, 12}
TrackLists == UNION {[1..n -> EpNums] : n \in 0..MaxTrack}

InitMerge ==
    /\ BatchIdle
    /\ InitFn({<<>>}, {[show |-> <<>>, season |-> Undefined, episode |-> Undefined]},
              [seasonNumber : SeasonNumbers, vf : TrackLists, vostfr : TrackLists])

\* every entry carries a player URL of its own
TrackUrl(language, epNum) ==
    <<"h", "t", "t", "p", "s", ":", "/", "/", "u", "q", "l", "o", "a", "d", ".", "b", "z",
      "/", "e", "m", "b", "e", "d", "-">> \o language \o epNum
VfEpisodes ==
    [k \in DOMAIN tracks.vf |->
        BlockEpisode(Vf, tracks.seasonNumber, tracks.vf[k], TrackUrl(Vf, tracks.vf[k]))]
VostfrEpisodes ==
    [k \in DOMAIN tracks.vostfr |->
        BlockEpisode(Vostfr, tracks.seasonNumber, tracks.vostfr[k],
                     TrackUrl(Vostfr, tracks.vostfr[k]))]

MergeTracks ==
    /\ fn = "none"
    /\ merged' = parseEpisodes(VfEpisodes, VostfrEpisodes)
    /\ fn' = "parseEpisodes"
    /\ UNCHANGED <<batchVars, label, parsed, pathArgs, path, tracks, arg, ret>>

NextMerge == MergeTracks

SpecMerge == InitMerge /\ [][NextMerge]_vars

\* ---- parseSeasonEpisode
LabelChars == {"S", "s", "E", "e", " ", "0", "1"}

InitParse ==
    /\ BatchIdle
    /\ InitFn(Strings(LabelChars, MaxLabelLen),
              {[show |-> <<>>, season |-> Undefined, episode |-> Undefined]},
              {[seasonNumber |-> 1, vf |-> <<>>, vostfr |-> <<>>]})

ParseLabel ==
    /\ fn = "none"
    /\ parsed' = parseSeasonEpisode(label)
    /\ fn' = "parseSeasonEpisode"
    /\ UNCHANGED <<batchVars, label, pathArgs, path, tracks, merged, arg, ret>>

NextParse == ParseLabel

SpecParse == InitParse /\ [][NextParse]_vars

----------------------------------------------------------------------------
(* Strings: searching, letters, case *)

LowerLetters == <<"a", "b", "c", "d", "e", "f", "g", "h", "i", "j", "k", "l", "m", "n", "o", "p", "q", "r", "s", "t", "u", "v", "w", "x", "y", "z">>
UpperLetters == <<"A", "B", "C", "D", "E", "F", "G", "H", "I", "J", "K", "L", "M", "N", "O", "P", "Q", "R", "S", "T", "U", "V", "W", "X", "Y", "Z">>
IsLower(c) == c \in Range(LowerLetters)
IsUpper(c) == c \in Range(UpperLetters)
IsAlpha(c) == IsLower(c) \/ IsUpper(c)
\* [a-zA-Z0-9]
IsAlnum(c) == IsAlpha(c) \/ IsDigit(c)
ToLowerChar(c) ==
    IF IsUpper(c) THEN LowerLetters[CHOOSE k \in 1..26 : UpperLetters[k] = c] ELSE c
\* s.toLowerCase()
ToLower(s) == [k \in DOMAIN s |-> ToLowerChar(s[k])]

\* s.startsWith(prefix)
StartsWith(s, prefix) ==
    Len(s) >= Len(prefix) /\ SubSeq(s, 1, Len(prefix)) = prefix
\* s.endsWith(suffix)
EndsWith(s, suffix) ==
    Len(s) >= Len(suffix) /\ SubSeq(s, Len(s) - Len(suffix) + 1, Len(s)) = suffix
\* s.includes(sub)
Includes(s, sub) ==
    \E k \in 0..(Len(s) - Len(sub)) : SubSeq(s, k + 1, k + Len(sub)) = sub
\* position of the first character of s that is in cs, Len(s) + 1 when none is
FirstOf(s, cs) ==
    IF \E k \in DOMAIN s : s[k] \in cs
    THEN CHOOSE k \in DOMAIN s : s[k] \in cs /\ \A j \in 1..(k - 1) : s[j] \notin cs
    ELSE Len(s) + 1

RECURSIVE Flatten(_)
Flatten(parts) == IF parts = <<>> THEN <<>> ELSE Head(parts) \o Flatten(Tail(parts))

----------------------------------------------------------------------------
(* new URL(s) without a base, as far as hostname and pathname go.          *)
(* Covered: scheme, the slashes after a special scheme, authority with an   *)
(* optional port, lower-casing and forbidden characters of the host, the    *)
(* default path "/" and the escaping of blanks. Not in any input here:      *)
(* credentials, backslashes, IPv6 literals, percent escapes, "." and ".."   *)
(* path segments, the file scheme.                                          *)

SpecialSchemes == {<<"h", "t", "t", "p">>, <<"h", "t", "t", "p", "s">>, <<"f", "t", "p">>, <<"w", "s">>, <<"w", "s", "s">>}
UrlFailure == [ok |-> FALSE, hostname |-> <<>>, pathname |-> <<>>]

IsSchemeChar(c) == IsAlnum(c) \/ c \in {"+", "-", "."}
ValidScheme(s) ==
    /\ s # <<>>
    /\ IsAlpha(s[1])
    /\ \A k \in DOMAIN s : IsSchemeChar(s[k])

RECURSIVE SkipSlashes(_)
SkipSlashes(s) == IF s # <<>> /\ s[1] = "/" THEN SkipSlashes(Tail(s)) ELSE s

\* pathname: the path up to the query or fragment, blanks escaped
RECURSIVE EscapeBlanks(_)
EscapeBlanks(s) ==
    IF s = <<>> THEN <<>>
    ELSE (IF s[1] = " " THEN <<"%", "2", "0">> ELSE <<s[1]>>) \o EscapeBlanks(Tail(s))
PathnameOf(s) == EscapeBlanks(SubSeq(s, 1, FirstOf(s, {"?", "#"}) - 1))

\* a host whose last label is a number is read as an IPv4 address
LastLabel(host) ==
    LET h == IF host # <<>> /\ host[Len(host)] = "." THEN SubSeq(host, 1, Len(host) - 1)
             ELSE host
        labels == Split(h, ".")
    IN  labels[Len(labels)]
EndsInNumber(host) == LastLabel(host) # <<>> /\ AllDigits(LastLabel(host))
IsIpv4Text(host) == \A k \in DOMAIN host : IsDigit(host[k]) \/ host[k] = "."

ParseUrl(s) ==
    LET colon == FirstOf(s, {":"})
        scheme == ToLower(SubSeq(s, 1, colon - 1))
        special == scheme \in SpecialSchemes
        rest == SubSeq(s, colon + 1, Len(s))
        hasAuthority == special \/ StartsWith(rest, <<"/", "/">>)
        afterSlashes == IF special THEN SkipSlashes(rest)
                        ELSE SubSeq(rest, 3, Len(rest))
        authEnd == FirstOf(afterSlashes, {"/", "?", "#"})
        authority == SubSeq(afterSlashes, 1, authEnd - 1)
        portAt == FirstOf(authority, {":"})
        rawHost == SubSeq(authority, 1, portAt - 1)
        port == SubSeq(authority, portAt + 1, Len(authority))
        host == IF special THEN ToLower(rawHost) ELSE rawHost
        tail == SubSeq(afterSlashes, authEnd, Len(afterSlashes))
        pathname == PathnameOf(tail)
    IN  IF colon > Len(s) \/ ~ValidScheme(scheme) THEN UrlFailure
        ELSE IF ~hasAuthority
             THEN [ok |-> TRUE, hostname |-> <<>>, pathname |-> PathnameOf(rest)]
        ELSE IF \/ portAt <= Len(authority) /\ (rawHost = <<>> \/ ~AllDigits(port))
                \/ special /\ rawHost = <<>>
                \/ \E k \in DOMAIN rawHost : rawHost[k] = " "
                \/ special /\ EndsInNumber(host) /\ ~IsIpv4Text(host)
             THEN UrlFailure
        ELSE [ok |-> TRUE, hostname |-> host,
              pathname |-> IF special /\ pathname = <<>> THEN <<"/">> ELSE pathname]

----------------------------------------------------------------------------
(* providers/frenchstream.ts: normalizeUqloadUrl *)

UqloadToken == <<"u", "q", "l", "o", "a", "d">>
EmbedToken == <<"e", "m", "b", "e", "d">>
EmbedPrefix == <<"e", "m", "b", "e", "d", "-">>
DotHtml == <<".", "h", "t", "m", "l">>
UqloadBase == <<"h", "t", "t", "p", "s", ":", "/", "/", "u", "q", "l", "o", "a", "d", ".", "b", "z", "/">>

\* /^[a-zA-Z0-9]+$/
IsAlnumWord(s) == s # <<>> /\ \A k \in DOMAIN s : IsAlnum(s[k])
\* /^[a-zA-Z0-9]+\.html$/
IsAlnumDotHtml(s) ==
    EndsWith(s, DotHtml) /\ IsAlnumWord(SubSeq(s, 1, Len(s) - Len(DotHtml)))

\* frenchstream.ts 180-198: the URL that is then validated (<<>> for `return null`)
Absolutize(url) ==
    LET normalized == Trim(url)
    IN  IF Includes(normalized, <<":", "/", "/">>) THEN Some(normalized)
        ELSE IF StartsWith(normalized, EmbedPrefix) THEN Some(UqloadBase \o normalized)
        ELSE IF IsAlnumDotHtml(normalized) THEN Some(UqloadBase \o EmbedPrefix \o normalized)
        ELSE IF IsAlnumWord(normalized)
             THEN Some(UqloadBase \o EmbedPrefix \o normalized \o DotHtml)
        ELSE Undefined

\* the validation reads the text of the URL instead of its parsed host and path
normalizeUqloadUrlTextual(url) ==
    IF url = <<>> \/ Absolutize(url) = Undefined THEN Undefined
    ELSE LET normalized == Absolutize(url)[1]
         IN  IF /\ ParseUrl(normalized).ok
                /\ Includes(normalized, UqloadToken)
                /\ Includes(normalized, EmbedToken)
             THEN Some(normalized) ELSE Undefined
\* frenchstream.ts 176-207; null is <<>>, a string s is <<s>>
normalizeUqloadUrl(url) ==
    IF url = <<>> \/ Absolutize(url) = Undefined THEN Undefined
    ELSE LET normalized == Absolutize(url)[1]
             u == ParseUrl(normalized)
         IN  IF /\ u.ok
                /\ Includes(u.hostname, UqloadToken)
                /\ Includes(u.pathname, EmbedToken)
             THEN Some(normalized) ELSE Undefined

----------------------------------------------------------------------------
(* Functions of the providers, the registry and the entry point, each      *)
(* applied once to an argument drawn at the start                          *)

InitCall(inputs) ==
    /\ BatchIdle
    /\ fn = "none"
    /\ label = <<>>
    /\ parsed = NoSeasonEpisode
    /\ pathArgs = [show |-> <<>>, season |-> Undefined, episode |-> Undefined]
    /\ path = <<>>
    /\ tracks = [seasonNumber |-> 1, vf |-> <<>>, vostfr |-> <<>>]
    /\ merged = <<>>
    /\ arg \in inputs
    /\ ret = <<>>

Returns(name, value) ==
    /\ fn = "none"
    /\ ret' = value
    /\ fn' = name
    /\ UNCHANGED <<batchVars, label, parsed, pathArgs, path, tracks, merged, arg>>

\* ---- normalizeUqloadUrl
UrlParts ==
    {<<"a", "1">>, <<"e", "m", "b", "e", "d", "-">>, <<".", "h", "t", "m", "l">>, <<"h", "t", "t", "p", "s", ":", "/", "/", "u", "q", "l", "o", "a", "d", ".", "b", "z">>, <<"h", "t", "t", "p", "s", ":", "/", "/", "e", "v", "i", "l", ".", "c", "o", "m">>,
     <<"H", "T", "T", "P", "S", ":", "/", "/", "U", "Q", "L", "O", "A", "D", ".", "B", "Z">>, <<"/", "e", "m", "b", "e", "d", "-">>, <<"/">>, <<" ">>, <<"?">>, <<"u", "q", "l", "o", "a", "d">>, <<":", "8">>}
UrlTexts == {Flatten(parts) : parts \in UNION {[1..n -> UrlParts] : n \in 0..MaxUrlParts}}

InitUrl == InitCall(UrlTexts)

NormalizeUrl == Returns("normalizeUqloadUrl", normalizeUqloadUrl(arg))

NextUrl == NormalizeUrl

SpecUrl == InitUrl /\ [][NextUrl]_vars

\* ---- search of both providers
\* yopflix.ts 11-21: json is the decoded response; the result is what the promise
\* settles to (threw: rejected)
YopflixTitle(r) ==
    [id |-> JsNum(r.id), name |-> r.name, year |-> r.year,
     type |-> IF r.is_series THEN "series" ELSE "movie"]
YopflixSearch(json, limit) ==
    IF json.status # "success" THEN [threw |-> TRUE, value |-> <<>>]
    ELSE LET list == IF json.results = Undefined THEN <<>> ELSE json.results[1]
         IN  [threw |-> FALSE, value |-> [k \in DOMAIN list |-> YopflixTitle(list[k])]]

\* frenchstream.ts 47-50: /\((\d{4})\)/ and /\s*\(\d{4}\)\s*$/
IsYearAt(s, k) ==
    /\ k + 5 <= Len(s)
    /\ s[k] = "("
    /\ \A j \in (k + 1)..(k + 4) : IsDigit(s[j])
    /\ s[k + 5] = ")"
YearOf(rawTitle) ==
    IF \E k \in DOMAIN rawTitle : IsYearAt(rawTitle, k)
    THEN LET p == CHOOSE k \in DOMAIN rawTitle :
                      IsYearAt(rawTitle, k) /\ \A j \in 1..(k - 1) : ~IsYearAt(rawTitle, j)
         IN  Some(DecimalValue(SubSeq(rawTitle, p + 1, p + 4)))
    ELSE Undefined
StripYear(rawTitle) ==
    LET t == TrimEnd(rawTitle)
    IN  IF Len(t) >= 6 /\ IsYearAt(t, Len(t) - 5)
        THEN Trim(SubSeq(t, 1, Len(t) - 6)) ELSE Trim(rawTitle)

SaisonWord == <<"s", "a", "i", "s", "o", "n">>
DashSaisonDash == <<"-", "s", "a", "i", "s", "o", "n", "-">>

\* frenchstream.ts 43-60: the Title made of one search-item match
CardTitle(card) ==
    [id |-> JsStr(card.path), name |-> StripYear(card.rawTitle), year |-> YearOf(card.rawTitle),
     type |-> IF \/ Includes(ToLower(card.rawTitle), SaisonWord)
                 \/ Includes(card.path, DashSaisonDash)
              THEN "series" ELSE "movie"]
\* frenchstream.ts 33-64: cards are the matches of itemRegex in the page, in order
RECURSIVE parseSearchResults(_)
parseSearchResults(cards) ==
    IF cards = <<>> THEN <<>>
    ELSE (IF Head(cards).path = <<>> \/ Head(cards).rawTitle = <<>> THEN <<>>
          ELSE <<CardTitle(Head(cards))>>) \o parseSearchResults(Tail(cards))
\* frenchstream.ts 12-18
FrenchStreamSearch(cards, limit) ==
    [threw |-> FALSE, value |-> SliceFront(parseSearchResults(cards), limit)]

RawResults ==
    {[id |-> 1, name |-> <<"A">>, year |-> Some(2024), is_series |-> FALSE],
     [id |-> 2, name |-> <<"B">>, year |-> Undefined, is_series |-> TRUE],
     [id |-> 3, name |-> <<"C">>, year |-> Undefined, is_series |-> FALSE]}
Cards ==
    {[path |-> <<"/", "1", "-", "a", ".", "h", "t", "m", "l">>, rawTitle |-> <<"A", " ", "(", "2", "0", "2", "4", ")", " ">>],
     [path |-> <<"/", "2", "-", "b", "-", "s", "a", "i", "s", "o", "n", "-", "2", ".", "h", "t", "m", "l">>, rawTitle |-> <<"B", " ", "-", " ", "S", "a", "i", "s", "o", "n", " ", "2">>],
     [path |-> <<"/", "c">>, rawTitle |-> <<"C">>]}
Limits == {0, 1, 2, 20}
UpTo(maxLen, set) == UNION {[1..n -> set] : n \in 0..maxLen}
SearchInputs ==
    [provider : {"yopflix"}, limit : Limits,
     json : [status : {"success", "error"},
             results : {Undefined} \cup {Some(l) : l \in UpTo(MaxUpstream, RawResults)}]]
    \cup [provider : {"frenchstream"}, limit : Limits, cards : UpTo(MaxUpstream, Cards)]

InitSearch == InitCall(SearchInputs)

SearchYopflix ==
    /\ arg.provider = "yopflix"
    /\ Returns("YopflixProvider.search", YopflixSearch(arg.json, arg.limit))
SearchFrenchStream ==
    /\ arg.provider = "frenchstream"
    /\ Returns("FrenchStreamProvider.search", FrenchStreamSearch(arg.cards, arg.limit))

NextSearch ==
    \/ SearchYopflix
    \/ SearchFrenchStream

SpecSearch == InitSearch /\ [][NextSearch]_vars

\* ---- the entry point: utils/args.ts, providers/index.ts, index.ts
DashDash == <<"-", "-">>
IsFlag(token) == StartsWith(token, DashDash)

\* args.ts 3-19: the record is the sequence of its entries; position k is 1-based
RECURSIVE ParseArgsFrom(_, _, _)
ParseArgsFrom(argv, k, acc) ==
    IF k > Len(argv) THEN acc
    ELSE IF argv[k] = <<>> \/ ~IsFlag(argv[k]) THEN ParseArgsFrom(argv, k + 1, acc)
    ELSE LET key == SubSeq(argv[k], 3, Len(argv[k]))
         IN  IF k + 1 > Len(argv) \/ argv[k + 1] = <<>> \/ IsFlag(argv[k + 1])
             THEN ParseArgsFrom(argv, k + 1, MapSet(acc, key, ArgTrue))
             ELSE ParseArgsFrom(argv, k + 2, MapSet(acc, key, ArgString(argv[k + 1])))
parseArgs(argv) == ParseArgsFrom(argv, 1, <<>>)
\* args.<key>
ArgOf(rec, key) ==
    IF \E k \in DOMAIN rec : rec[k].key = key
    THEN rec[CHOOSE k \in DOMAIN rec : rec[k].key = key].value
    ELSE ArgUndefined

DownloadCommand == <<"d", "o", "w", "n", "l", "o", "a", "d">>
\* args.ts 21-29; argv is process.argv.slice(2)
getCommandAndArgv(argv) ==
    LET nonFlags == {k \in DOMAIN argv : ~IsFlag(argv[k])}
        first == CHOOSE k \in nonFlags : \A j \in nonFlags : k <= j
    IN  IF nonFlags = {} \/ argv[first] = <<>>
        THEN [command |-> DownloadCommand, argsv |-> argv]
        ELSE LET at == CHOOSE k \in DOMAIN argv :
                           argv[k] = argv[first] /\ \A j \in 1..(k - 1) : argv[j] # argv[first]
             IN  [command |-> argv[first],
                  argsv |-> SubSeq(argv, 1, at - 1) \o SubSeq(argv, at + 1, Len(argv))]

\* providers/index.ts 81-88: the two instances and the registry object
YopflixInstance == [class |-> "YopflixProvider", name |-> <<"y", "o", "p", "f", "l", "i", "x">>]
FrenchStreamInstance == [class |-> "FrenchStreamProvider", name |-> <<"f", "r", "e", "n", "c", "h", "s", "t", "r", "e", "a", "m">>]
providers ==
    <<[key |-> <<"y", "o", "p", "f", "l", "i", "x">>, value |-> YopflixInstance],
      [key |-> <<"f", "r", "e", "n", "c", "h", "s", "t", "r", "e", "a", "m">>, value |-> FrenchStreamInstance],
      [key |-> <<"f", "s">>, value |-> FrenchStreamInstance]>>
\* `providers` is an object literal: a key it does not own is looked up on
\* Object.prototype
ObjectPrototypeKeys ==
    {<<"c", "o", "n", "s", "t", "r", "u", "c", "t", "o", "r">>, <<"t", "o", "S", "t", "r", "i", "n", "g">>, <<"t", "o", "L", "o", "c", "a", "l", "e", "S", "t", "r", "i", "n", "g">>, <<"v", "a", "l", "u", "e", "O", "f">>, <<"h", "a", "s", "O", "w", "n", "P", "r", "o", "p", "e", "r", "t", "y">>,
     <<"i", "s", "P", "r", "o", "t", "o", "t", "y", "p", "e", "O", "f">>, <<"p", "r", "o", "p", "e", "r", "t", "y", "I", "s", "E", "n", "u", "m", "e", "r", "a", "b", "l", "e">>, <<"_", "_", "p", "r", "o", "t", "o", "_", "_">>, <<"_", "_", "d", "e", "f", "i", "n", "e", "G", "e", "t", "t", "e", "r", "_", "_">>,
     <<"_", "_", "d", "e", "f", "i", "n", "e", "S", "e", "t", "t", "e", "r", "_", "_">>, <<"_", "_", "l", "o", "o", "k", "u", "p", "G", "e", "t", "t", "e", "r", "_", "_">>, <<"_", "_", "l", "o", "o", "k", "u", "p", "S", "e", "t", "t", "e", "r", "_", "_">>}
PropertyOf(obj, key) ==
    IF \E k \in DOMAIN obj : obj[k].key = key
    THEN Some(obj[CHOOSE k \in DOMAIN obj : obj[k].key = key].value)
    ELSE IF key \in ObjectPrototypeKeys
         THEN Some([class |-> "Object.prototype", name |-> key])
    ELSE Undefined
\* providers/index.ts 90-92
getProvider(name) ==
    IF PropertyOf(providers, name) = Undefined THEN YopflixInstance
    ELSE PropertyOf(providers, name)[1]

ProviderFlag == <<"-", "-", "p", "r", "o", "v", "i", "d", "e", "r">>
\* index.ts 68-72
CleanArgsv(argsv) ==
    LET keep == {k \in DOMAIN argsv :
                    argsv[k] # ProviderFlag /\ ~(k > 1 /\ argsv[k - 1] = ProviderFlag)}
        Pick[k \in 0..Len(argsv)] ==
            IF k = 0 THEN <<>>
            ELSE IF k \in keep THEN Append(Pick[k - 1], argsv[k]) ELSE Pick[k - 1]
    IN  Pick[Len(argsv)]

\* index.ts 75-100: the handler called and the argument list it is given
Dispatch(command, cleanArgsv) ==
    IF command = <<"s", "e", "a", "r", "c", "h">> THEN [handler |-> "cmdSearch", argsv |-> cleanArgsv]
    ELSE IF command = <<"i", "n", "f", "o">> THEN [handler |-> "cmdInfo", argsv |-> cleanArgsv]
    ELSE IF command = <<"l", "i", "s", "t">> THEN [handler |-> "cmdList", argsv |-> cleanArgsv]
    ELSE IF command = DownloadCommand THEN [handler |-> "cmdDownload", argsv |-> cleanArgsv]
    ELSE IF command = <<"h", "e", "l", "p">> THEN [handler |-> "printHelp", argsv |-> <<>>]
    ELSE IF IsFlag(command)
         THEN [handler |-> "cmdDownload", argsv |-> <<command>> \o cleanArgsv]
    ELSE [handler |-> "exit1", argsv |-> <<>>]

\* index.ts 59-73 followed by the switch
Main(argv) ==
    LET ca == getCommandAndArgv(argv)
        rec == parseArgs(ca.argsv)
        providerName == IF ArgOf(rec, <<"p", "r", "o", "v", "i", "d", "e", "r">>).kind = "string"
                        THEN ArgOf(rec, <<"p", "r", "o", "v", "i", "d", "e", "r">>).str ELSE <<"y", "o", "p", "f", "l", "i", "x">>
        d == Dispatch(ca.command, CleanArgsv(ca.argsv))
    IN  [command |-> ca.command, providerName |-> providerName,
         provider |-> getProvider(providerName), handler |-> d.handler, argsv |-> d.argsv]

ArgvTokens ==
    {<<"d", "o", "w", "n", "l", "o", "a", "d">>, <<"s", "e", "a", "r", "c", "h">>, <<"h", "e", "l", "p">>, <<"-", "-", "p", "r", "o", "v", "i", "d", "e", "r">>, <<"-", "-", "q", "u", "e", "r", "y">>, <<"-", "-", "t", "i", "t", "l", "e", "I", "d">>,
     <<"f", "s">>, <<"f", "r", "e", "n", "c", "h", "s", "t", "r", "e", "a", "m">>, <<"y", "o", "p", "f", "l", "i", "x">>, <<"p", "s", "y", "c", "h">>, <<"3", "2", "3", "5">>, <<"c", "o", "n", "s", "t", "r", "u", "c", "t", "o", "r">>, <<>>}

InitMain == InitCall(UpTo(MaxArgv, ArgvTokens))

RunMain == Returns("main", Main(arg))

NextMain == RunMain

SpecMain == InitMain /\ [][NextMain]_vars

\* ---- cmdDownload up to the title it resolves
TitleIdArgs ==
    {ArgUndefined, ArgTrue, ArgString(<<"7">>), ArgString(<<"0">>), ArgString(<<"/", "1", "-", "a", ".", "h", "t", "m", "l">>)}
QueryArgs == {ArgUndefined, ArgTrue, ArgString(<<"p", "s", "y", "c", "h">>)}
ResolveArgs ==
    [titleId : TitleIdArgs, query : QueryArgs, season : {ArgUndefined},
     episode : {ArgUndefined}, max : {ArgUndefined}]
\* what either provider can answer
SearchAnswers ==
    {YopflixSearch([status |-> "success", results |-> Some(l)], 20).value :
         l \in UpTo(MaxUpstream, RawResults)}
    \cup {FrenchStreamSearch(l, 20).value : l \in UpTo(MaxUpstream, Cards)}

InitResolve ==
    InitCommand(ResolveArgs, SearchAnswers, {<<>>},
                {[override |-> Undefined, onPath |-> {"yt-dlp"}]},
                {[p \in OutputPaths(BatchNumbers) |-> "absent"]})

NextResolve ==
    \/ ParseOptions
    \/ ResolveTitle

SpecResolve == InitResolve /\ [][NextResolve]_vars

\* ---- parseEpisodeBlock
\* frenchstream.ts 130-174. The block is the sequence of the matches of
\* episodeRegex inside the container of the language (<<>> as `undefined` when
\* the container is not in the page); an entry is its data-ep digits and the
\* data-* attributes of the same div.
RECURSIVE BlockEntries(_, _, _)
BlockEntries(entries, language, seasonNumber) ==
    IF entries = <<>> THEN <<>>
    ELSE LET e == Head(entries)
             url == IF e.uqload = Undefined THEN Undefined
                    ELSE normalizeUqloadUrl(e.uqload[1])
         IN  (IF e.ep = <<>> \/ e.ep = <<"0">> \/ e.uqload = Undefined
                 \/ e.uqload[1] = <<>> \/ url = Undefined
              THEN <<>>
              ELSE <<BlockEpisode(language, seasonNumber, e.ep, url[1])>>)
             \o BlockEntries(Tail(entries), language, seasonNumber)
parseEpisodeBlock(block, language, seasonNumber) ==
    IF block = Undefined THEN <<>> ELSE BlockEntries(block[1], language, seasonNumber)

VidzyUrl == <<"h", "t", "t", "p", "s", ":", "/", "/", "v", "i", "d", "z", "y", ".", "o", "r", "g", "/", "e", "m", "b", "e", "d", "-", "v", "1", ".", "h", "t", "m", "l">>
VoeUrl == <<"h", "t", "t", "p", "s", ":", "/", "/", "v", "o", "e", ".", "s", "x", "/", "e", "/", "w", "1">>
BlockEntrySet ==
    [ep : {<<"0">>, <<"1">>, <<"0", "2">>},
     uqload : {Undefined, Some(<<"a", "1">>), Some(<<"h", "t", "t", "p", "s", ":", "/", "/", "e", "v", "i", "l", ".", "c", "o", "m", "/", "e", "m", "b", "e", "d", "-", "a", "1", ".", "h", "t", "m", "l">>)},
     vidzy : {Undefined, Some(VidzyUrl)},
     netu : {Undefined},
     voe : {Undefined, Some(VoeUrl)}]
Blocks(entrySet) == {Undefined} \cup {Some(l) : l \in UpTo(MaxTrack, entrySet)}

InitBlock == InitCall([language : {Vf, Vostfr}, seasonNumber : {2}, block : Blocks(BlockEntrySet)])

ParseBlock ==
    Returns("parseEpisodeBlock", parseEpisodeBlock(arg.block, arg.language, arg.seasonNumber))

NextBlock == ParseBlock

SpecBlock == InitBlock /\ [][NextBlock]_vars

\* ---- getDetails of both providers
\* utils/download.ts 115-125; url is <<>> when v.url is not a string
isUqloadEmbed(url) ==
    LET u == ParseUrl(url)
    IN  /\ u.ok
        /\ \/ Includes(u.hostname, <<"u", "q", "l", "o", "a", "d", ".">>)
           \/ u.hostname = <<"u", "q", "l", "o", "a", "d", ".", "c", "x">>
           \/ u.hostname = <<"u", "q", "l", "o", "a", "d", ".", "n", "e", "t">>
        /\ StartsWith(u.pathname, <<"/", "e", "m", "b", "e", "d", "-">>)

\* yopflix.ts 53-61
VideoEpisode(v) ==
    LET se == parseSeasonEpisode(IF v.name = Undefined THEN <<>> ELSE v.name[1])
    IN  [id |-> v.id, name |-> v.name, url |-> v.url[1], season |-> se.season,
         episode |-> se.episode, language |-> v.language]
\* yopflix.ts 44-63
extractEpisodes(details) ==
    LET direct == IF details.videos = Undefined THEN <<>> ELSE details.videos[1]
        nested == IF details.title.videos = Undefined THEN <<>> ELSE details.title.videos[1]
        all == direct \o nested
        kept == SelectSeq(all, LAMBDA v : v.url # Undefined /\ isUqloadEmbed(v.url[1]))
    IN  [k \in DOMAIN kept |-> VideoEpisode(kept[k])]
\* yopflix.ts 23-37; details is the decoded response
YopflixGetDetails(details) ==
    LET eps == extractEpisodes(details)
    IN  [id |-> JsNum(details.title.id),
         name |-> details.title.name,
         type |-> IF details.title.is_series THEN "series" ELSE "movie",
         episodes |-> eps,
         seasonCount |-> details.title.season_count,
         episodeCount |-> IF details.title.episode_count = Undefined THEN Some(Len(eps))
                          ELSE details.title.episode_count]

\* frenchstream.ts 68-69: the text of the first <h1>, else of <title> up to a bar
TitleGroup(text) ==
    LET start == IF \E k \in DOMAIN text : text[k] # "|"
                 THEN CHOOSE k \in DOMAIN text :
                          text[k] # "|" /\ \A j \in 1..(k - 1) : text[j] = "|"
                 ELSE Len(text) + 1
        rest == SubSeq(text, start, Len(text))
    IN  SubSeq(rest, 1, FirstOf(rest, {"|"}) - 1)
TitleMatch(page) ==
    IF page.h1 # Undefined /\ page.h1[1] # <<>> THEN page.h1
    ELSE IF page.title # Undefined /\ TitleGroup(page.title[1]) # <<>>
         THEN Some(TitleGroup(page.title[1]))
    ELSE Undefined

\* the word and the phrase stripped from the name (frenchstream.ts 70)
SerieWord == <<"s", "Ã", "©", "r", "i", "e">>
StreamingPhrase == <<"e", "n", " ", "s", "t", "r", "e", "a", "m", "i", "n", "g", " ", "c", "o", "m", "p", "l", "e", "t">>

\* position of the first occurrence of word in s, letter case ignored; 0 if none
IndexOfWord(s, word) ==
    LET hits == {k \in 1..(Len(s) - Len(word) + 1) :
                    ToLower(SubSeq(s, k, k + Len(word) - 1)) = ToLower(word)}
    IN  IF hits = {} THEN 0 ELSE CHOOSE k \in hits : \A j \in hits : k <= j
\* first index from k on that holds no blank
RECURSIVE SkipBlanks(_, _)
SkipBlanks(s, k) == IF k <= Len(s) /\ IsSpace(s[k]) THEN SkipBlanks(s, k + 1) ELSE k
\* first index from k on that holds no digit
RECURSIVE SkipDigits(_, _)
SkipDigits(s, k) == IF k <= Len(s) /\ IsDigit(s[k]) THEN SkipDigits(s, k + 1) ELSE k
\* first index of the run of blanks that ends just before k
RECURSIVE BackBlanks(_, _)
BackBlanks(s, k) == IF k > 1 /\ IsSpace(s[k - 1]) THEN BackBlanks(s, k - 1) ELSE k

\* .replace(/s..rie\s*/i, "")
StripSerie(s) ==
    LET p == IndexOfWord(s, SerieWord)
    IN  IF p = 0 THEN s
        ELSE SubSeq(s, 1, p - 1) \o SubSeq(s, SkipBlanks(s, p + Len(SerieWord)), Len(s))
\* .replace(/\s*en streaming complet.*$/i, "")
StripStreaming(s) ==
    LET p == IndexOfWord(s, StreamingPhrase)
    IN  IF p = 0 THEN s ELSE SubSeq(s, 1, BackBlanks(s, p) - 1)

\* /saison-(\d+)/i (dash) and /saison\s*(\d+)/i: the leftmost match as
\* [at, digitsFrom, end], at = 0 when there is none
SaisonDigitsFrom(s, k, dash) ==
    IF dash THEN (IF k + 6 <= Len(s) /\ s[k + 6] = "-" THEN k + 7 ELSE 0)
    ELSE SkipBlanks(s, k + 6)
SaisonMatch(s, dash) ==
    LET hits == {k \in 1..(Len(s) - 5) :
                    /\ ToLower(SubSeq(s, k, k + 5)) = SaisonWord
                    /\ SaisonDigitsFrom(s, k, dash) \in 1..Len(s)
                    /\ IsDigit(s[SaisonDigitsFrom(s, k, dash)])}
    IN  IF hits = {} THEN [at |-> 0, digitsFrom |-> 0, end |-> 0]
        ELSE LET k == CHOOSE h \in hits : \A j \in hits : h <= j
                 d == SaisonDigitsFrom(s, k, dash)
             IN  [at |-> k, digitsFrom |-> d, end |-> SkipDigits(s, d) - 1]
SaisonNumber(s, dash) ==
    LET m == SaisonMatch(s, dash)
    IN  IF m.at = 0 THEN Undefined ELSE Some(DecimalValue(SubSeq(s, m.digitsFrom, m.end)))
\* .replace(/\s*-?\s*saison\s*\d+/i, "")
StripSaison(s) ==
    LET m == SaisonMatch(s, FALSE)
        b == BackBlanks(s, m.at)
        from == IF b > 1 /\ s[b - 1] = "-" THEN BackBlanks(s, b - 1) ELSE b
    IN  IF m.at = 0 THEN s ELSE SubSeq(s, 1, from - 1) \o SubSeq(s, m.end + 1, Len(s))

\* frenchstream.ts 66-95; the page is what the regular expressions see of the
\* html: the <h1> text, the <title> text, the two episode containers
parseMediaPage(page, titlePath) ==
    LET m == TitleMatch(page)
        name == IF m = Undefined THEN <<"U", "n", "k", "n", "o", "w", "n">>
                ELSE Trim(StripStreaming(StripSerie(Trim(m[1]))))
        isSeries == Includes(titlePath, DashSaisonDash) \/ Includes(ToLower(name), SaisonWord)
        seasonFromPath == SaisonNumber(titlePath, TRUE)
        seasonFromName == SaisonNumber(name, FALSE)
        seasonNumber == IF seasonFromPath # Undefined THEN seasonFromPath[1]
                        ELSE IF seasonFromName # Undefined THEN seasonFromName[1] ELSE 1
        eps == parseEpisodes(parseEpisodeBlock(page.vf, Vf, seasonNumber),
                             parseEpisodeBlock(page.vostfr, Vostfr, seasonNumber))
    IN  [id |-> JsStr(titlePath),
         name |-> Trim(StripSaison(name)),
         type |-> IF isSeries THEN "series" ELSE "movie",
         episodes |-> eps,
         seasonCount |-> IF isSeries THEN Some(1) ELSE Undefined,
         episodeCount |-> Some(Len(eps))]

BaseUrl == <<"h", "t", "t", "p", "s", ":", "/", "/", "f", "s", "0", "2", ".", "l", "o", "l">>
\* frenchstream.ts 20-26; fetched is the page fetchHtml(url) answers with
\* (<<>> when it throws)
FrenchStreamGetDetails(titlePath, fetched) ==
    LET url == IF StartsWith(titlePath, <<"h", "t", "t", "p">>) THEN titlePath ELSE BaseUrl \o titlePath
    IN  IF fetched = Undefined THEN [threw |-> TRUE, url |-> url, value |-> <<>>]
        ELSE [threw |-> FALSE, url |-> url, value |-> parseMediaPage(fetched[1], titlePath)]

Videos ==
    {[id |-> 1, name |-> Some(<<"S", "0", "1", " ", "E", "0", "1">>), url |-> Some(<<"h", "t", "t", "p", "s", ":", "/", "/", "u", "q", "l", "o", "a", "d", ".", "c", "x", "/", "e", "m", "b", "e", "d", "-", "a", "1", ".", "h", "t", "m", "l">>),
      language |-> Some(<<"f", "r">>)],
     [id |-> 2, name |-> Some(<<"s", "1", "e", "2">>), url |-> Some(<<"h", "t", "t", "p", "s", ":", "/", "/", "u", "q", "l", "o", "a", "d", ".", "n", "e", "t", "/", "e", "m", "b", "e", "d", "-", "b", "2", ".", "h", "t", "m", "l">>),
      language |-> Undefined],
     [id |-> 3, name |-> Some(<<"T", "r", "a", "i", "l", "e", "r">>), url |-> Some(<<"h", "t", "t", "p", "s", ":", "/", "/", "e", "v", "i", "l", ".", "c", "o", "m", "/", "e", "m", "b", "e", "d", "-", "u", "q", "l", "o", "a", "d", ".">>),
      language |-> Undefined],
     [id |-> 4, name |-> Undefined, url |-> Undefined, language |-> Undefined]}
\* a list of the upstream names a video once
VideoLists ==
    {l \in UpTo(MaxVideos, Videos) :
        \A j, k \in DOMAIN l : j # k => l[j].id # l[k].id}
YopflixDetails ==
    [title : [id : {7}, name : {<<"P", "s", "y", "c", "h">>}, is_series : {TRUE}, season_count : {Some(8)},
              episode_count : {Undefined, Some(5)},
              videos : {Undefined} \cup {Some(l) : l \in VideoLists}],
     status : {"success"},
     videos : {Undefined} \cup {Some(l) : l \in VideoLists}]

TitlePaths ==
    {<<"/", "1", "5", "-", "x", "-", "s", "a", "i", "s", "o", "n", "-", "3", ".", "h", "t", "m", "l">>, <<"/", "s", "-", "t", "v", "/", "1", "5", "-", "y", ".", "h", "t", "m", "l">>, <<"/", "x", ".", "h", "t", "m", "l">>,
     <<"h", "t", "t", "p", "s", ":", "/", "/", "f", "s", "0", "2", ".", "l", "o", "l", "/", "z", "-", "s", "a", "i", "s", "o", "n", "-", "2", ".", "h", "t", "m", "l">>}
PageHeads ==
    {[h1 |-> Undefined, title |-> Undefined],
     [h1 |-> Undefined, title |-> Some(<<"|", "T", " ", "s", "a", "i", "s", "o", "n", "4", " ", "|", " ", "s", "i", "t", "e">>)],
     [h1 |-> Some(<<"L", "o", "u", "p", "s", " ", "-", " ", "S", "a", "i", "s", "o", "n", " ", "2">>),
      title |-> Some(<<"T">>)],
     [h1 |-> Some(<<"s", "Ã", "©", "r", "i", "e", " ", "X", " ", " ", "e", "n", " ", "s", "t",
                    "r", "e", "a", "m", "i", "n", "g", " ", "c", "o", "m", "p", "l", "e", "t",
                    " ", "V", "F">>),
      title |-> Undefined]}
DetailEntrySet ==
    {[ep |-> <<"1">>, uqload |-> Some(<<"a", "1">>), vidzy |-> Undefined, netu |-> Undefined,
      voe |-> Undefined],
     [ep |-> <<"0", "2">>, uqload |-> Some(<<"e", "m", "b", "e", "d", "-", "b", "2">>),
      vidzy |-> Undefined, netu |-> Undefined, voe |-> Some(VoeUrl)],
     [ep |-> <<"2">>, uqload |-> Undefined, vidzy |-> Some(VidzyUrl), netu |-> Undefined,
      voe |-> Undefined]}
Pages ==
    {[h1 |-> h.h1, title |-> h.title, vf |-> a, vostfr |-> b] :
        h \in PageHeads, a \in Blocks(DetailEntrySet), b \in Blocks(DetailEntrySet)}
DetailsInputs ==
    [provider : {"yopflix"}, details : YopflixDetails]
    \cup [provider : {"frenchstream"}, titleId : TitlePaths,
          fetched : {Undefined} \cup {Some(p) : p \in Pages}]

InitDetails == InitCall(DetailsInputs)

GetDetailsYopflix ==
    /\ arg.provider = "yopflix"
    /\ Returns("YopflixProvider.getDetails",
               [threw |-> FALSE, value |-> YopflixGetDetails(arg.details)])
GetDetailsFrenchStream ==
    /\ arg.provider = "frenchstream"
    /\ Returns("FrenchStreamProvider.getDetails",
               FrenchStreamGetDetails(arg.titleId, arg.fetched))

NextDetails ==
    \/ GetDetailsYopflix
    \/ GetDetailsFrenchStream

SpecDetails == InitDetails /\ [][NextDetails]_vars

----------------------------------------------------------------------------
(* Properties of the download batch *)

\* the queued list is final
Queued == pc \in {"loop", "entry", "attempt", "running", "sleep", "done"}

HasFailureFor(ep) ==
    \E k \in DOMAIN failures : failures[k].name = ep.name /\ failures[k].url = ep.url

ContainsWords(text, words) ==
    \E k \in 0..(Len(text) - Len(words)) : SubSeq(text, k + 1, k + Len(words)) = words

NoBinaryResolves ==
    /\ env.override = Undefined \/ env.override = Some(<<>>)
    /\ \A k \in DOMAIN CandidateNames : CandidateNames[k] \notin env.onPath

\* C1: an episode whose three attempts all failed is recorded as a failure
\* whose reason contains "after retries", and the batch goes on: the loop
\* takes the next episode, the command ends only when every queued episode
\* has an outcome, and it never exits early once episodes are queued.
C1_ExhaustedRetriesRecordedBatchContinues ==
    /\ (pc = "loop" /\ idx > 0 /\ failedAttempts = Attempts) => results[idx] = "failed"
    /\ \A k \in DOMAIN results :
           results[k] = "failed" =>
               \E j \in DOMAIN failures :
                   /\ failures[j].name = filtered[k].name
                   /\ failures[j].url = filtered[k].url
                   /\ ContainsWords(failures[j].error, <<"after", "retries">>)
    /\ (pc = "loop" /\ idx < Len(filtered)) => ENABLED NextEpisode
    /\ pc = "done" => Len(results) = Len(filtered)
    /\ pc = "exit1" => Len(episodes) = 0

C1_Witness ==
    /\ pc = "done"
    /\ Len(filtered) = 2
    /\ results = <<"failed", "downloaded">>
    /\ Len(failures) = 1

\* C2: an episode whose output path held a non-empty regular file on entry to
\* downloadWithRetries gets no downloader invocation, ends as skipped (a
\* success) and has no entry in the failure list.
C2_ExistingFileSkipsDownloader ==
    \A k \in DOMAIN existedAtEntry :
        existedAtEntry[k] =>
            /\ k = idx => (spawned = 0 /\ pc \notin {"attempt", "running", "sleep"})
            /\ k \in DOMAIN results => results[k] = "skipped"
            /\ ~HasFailureFor(filtered[k])

C2_Witness ==
    /\ pc = "done"
    /\ \E k \in DOMAIN results : existedAtEntry[k] /\ results[k] = "skipped"

\* C3 (as claimed): once an attempt has met the unresolvable binary, the
\* command has ended; it neither sleeps nor attempts again nor goes on.
C3_UnresolvedBinaryIsFatal ==
    (NoBinaryResolves /\ failedAttempts > 0) => pc = "exit1"

\* C4: at most three invocations per episode; after an exit with code 0 the
\* episode has ended as downloaded, is no failure, and nothing more is
\* spawned for it; every invocation that exited with another code is one
\* failed attempt, and the failed attempts are what the budget counts.
C4_AtMostThreeInvocations ==
    /\ spawned <= Attempts
    /\ failedAttempts <= Attempts
    /\ code = Some(0) =>
           /\ pc \in {"loop", "done"}
           /\ results[idx] = "downloaded"
           /\ ~HasFailureFor(filtered[idx])
    /\ ~NoBinaryResolves =>
           spawned = failedAttempts + running + (IF code = Some(0) THEN 1 ELSE 0)
    /\ pc = "attempt" => failedAttempts = i
    /\ pc = "sleep" => failedAttempts = i + 1
    /\ (pc = "loop" /\ idx > 0 /\ results[idx] = "failed") => failedAttempts = Attempts

C4_Witness ==
    /\ pc = "loop"
    /\ code = Some(0)
    /\ spawned = 2
    /\ failedAttempts = 1

\* the queued episodes that ended as failed, in queue order
RECURSIVE FailedUpTo(_)
FailedUpTo(n) ==
    IF n = 0 THEN <<>>
    ELSE FailedUpTo(n - 1) \o (IF results[n] = "failed" THEN <<filtered[n]>> ELSE <<>>)

\* C17: the end-of-batch report is emitted only after the last queued episode
\* has been processed, and it lists exactly the failed episodes, each with its
\* name, its URL and the reason; no failed episode is missing from it when the
\* command ends normally.
C17_ReportListsExactlyTheFailures ==
    /\ report # <<>> => (pc = "done" /\ Len(results) = Len(filtered))
    /\ pc = "done" =>
           LET failed == FailedUpTo(Len(results))
           IN  IF failed = <<>> THEN report = <<[line |-> "all downloads completed"]>>
               ELSE /\ Len(report) = 1 + Len(failed)
                    /\ report[1] = [line |-> "completed with failures", count |-> Len(failed)]
                    /\ \A k \in DOMAIN failed :
                           report[k + 1] = [line |-> "failure", name |-> failed[k].name,
                                            url |-> failed[k].url, error |-> ErrAfterRetries]

C17_Witness ==
    /\ pc = "done"
    /\ results = <<"failed", "failed">>
    /\ Len(report) = 3

\* the pc values inside one iteration of the for-of loop
InEpisode == pc \in {"entry", "attempt", "running", "sleep"}

\* C20: at most one downloader invocation is in progress at any time; the
\* episodes are started in queue order, and episode k+1 is started only after
\* episode k has ended (skipped, downloaded or failed).
C20_OneDownloaderEpisodesInOrder ==
    /\ running \in {0, 1}
    /\ running = 1 <=> pc = "running"
    /\ Len(existedAtEntry) = idx
    /\ InEpisode => (Len(results) = idx - 1 /\
                     outputPath = buildOutputPath(OutDir, showName, filtered[idx].season,
                                                  filtered[idx].episode, Mp4))
    /\ pc \in {"loop", "done"} => Len(results) = idx

C20_Witness ==
    /\ pc = "running"
    /\ running = 1
    /\ idx = 2
    /\ results \in {<<"failed">>, <<"downloaded">>}

\* C21: the backoff delay after the k-th failed attempt of an episode
\* (k = 1, 2, 3) is 5 s * 2^(k-1): 5 s, 10 s and 20 s.
C21_BackoffDoublesFromFiveSeconds ==
    pc = "sleep" =>
        /\ failedAttempts \in 1..3
        /\ failedAttempts = 1 => delayMs = 5000
        /\ failedAttempts = 2 => delayMs = 10000
        /\ failedAttempts = 3 => delayMs = 20000

C21_Witness ==
    /\ pc = "sleep"
    /\ failedAttempts = 3
    /\ delayMs = 20000

\* the output path of the k-th queued episode
QueuedPath(k) ==
    buildOutputPath(OutDir, showName, filtered[k].season, filtered[k].episode, Mp4)
SameNumbers(a, b) == a.season = b.season /\ a.episode = b.episode

\* C22: two queued episodes that differ (also when a season or episode number
\* is absent or 0) never get the same output path, so no episode is skipped
\* as existing because of the file an earlier episode of the batch was
\* downloaded to.
C22_DistinctEpisodesDistinctPaths ==
    Queued =>
        /\ \A j, k \in DOMAIN filtered :
               ~SameNumbers(filtered[j], filtered[k]) => QueuedPath(j) # QueuedPath(k)
        /\ \A k \in DOMAIN results :
               results[k] = "skipped" =>
                   ~\E j \in 1..(k - 1) :
                        /\ ~SameNumbers(filtered[j], filtered[k])
                        /\ results[j] = "downloaded"
                        /\ QueuedPath(j) = QueuedPath(k)

\* C23: every backoff sleep is followed by another downloader attempt for the
\* same episode: no sleep is taken once the last attempt of the budget has
\* failed.
C23_NoSleepAfterLastAttempt ==
    pc = "sleep" => (failedAttempts < Attempts /\ HasBudget(i + 1, Attempts))

----------------------------------------------------------------------------
(* Properties of the filtering steps *)

Take(list, count) == [k \in 1..(IF count < Len(list) THEN count ELSE Len(list)) |-> list[k]]

C6Keeps(ep) ==
    /\ IsDefined(onlySeason) => ep.season = onlySeason
    /\ (IsDefined(onlyEpisodes) /\ Len(onlyEpisodes[1]) > 0) =>
           (IsDefined(ep.episode) /\ \E k \in DOMAIN onlyEpisodes[1] :
                                         onlyEpisodes[1][k] = ep.episode[1])
C6_FilterKeepsExactMatches ==
    pc = "fallback" => filterOut = SelectSeq(episodes, C6Keeps)

\* C7: with a maximum count m the queued list is the first m elements, in
\* order, of the list left by filtering and its fallback, the filtering
\* having been applied to the whole episode list.
C7Selected(ep) ==
    /\ Truthy(onlySeason) => ep.season = onlySeason
    /\ (IsDefined(onlyEpisodes) /\ Len(onlyEpisodes[1]) > 0) =>
           (IsDefined(ep.episode) /\ \E k \in DOMAIN onlyEpisodes[1] :
                                         onlyEpisodes[1][k] = ep.episode[1])
C7_TruncationAfterFiltering ==
    (Queued /\ IsDefined(maxDownloads)) =>
        LET selected == SelectSeq(episodes, C7Selected)
            base == IF Len(selected) = 0 THEN episodes ELSE selected
        IN  filtered = Take(base, maxDownloads[1])

C7_Witness ==
    /\ pc = "loop"
    /\ IsDefined(maxDownloads)
    /\ Len(filterOut) > maxDownloads[1]
    /\ Len(filterOut) < Len(episodes)
    /\ Len(filtered) = 1
    /\ filtered[1] # episodes[1]

----------------------------------------------------------------------------
(* Properties of the pure functions *)

\* C8 (as claimed): with both numbers known, 0 included, the path is
\* <base>/<show>/Season <NN>/<show> - S<NN>E<NN>.<ext>; with one of them
\* unknown it is <base>/<show>/<show>.<ext>; <show> is the sanitized name and
\* the numbers are padded to two digits.
C8_NestedWheneverBothNumbersKnown ==
    fn = "buildOutputPath" =>
        LET show == Trim(ReplaceIllegal(pathArgs.show))
        IN  IF IsDefined(pathArgs.season) /\ IsDefined(pathArgs.episode)
            THEN LET nn == PadStart2(NumberToString(pathArgs.season[1]))
                     mm == PadStart2(NumberToString(pathArgs.episode[1]))
                 IN  path = <<OutDir, show, SeasonWord \o nn,
                              show \o <<" ", "-", " ", "S">> \o nn \o <<"E">> \o mm
                                   \o <<".">> \o Mp4>>
            ELSE path = <<OutDir, show, show \o <<".">> \o Mp4>>

\* C9: the merged list has exactly one Episode for every (season, episode)
\* pair of either track and nothing else, and the Episode of a pair the vf
\* track has is a vf Episode.
NumbersOf(ep) == <<ep.season, ep.episode>>
C9_OneEpisodePerPairVfPreferred ==
    fn = "parseEpisodes" =>
        LET inputs == Range(VfEpisodes) \cup Range(VostfrEpisodes)
        IN  /\ \A ep \in inputs :
                   Cardinality({k \in DOMAIN merged : NumbersOf(merged[k]) = NumbersOf(ep)}) = 1
            /\ \A k \in DOMAIN merged :
                   /\ merged[k] \in inputs
                   /\ (\E ep \in Range(VfEpisodes) : NumbersOf(ep) = NumbersOf(merged[k]))
                          => (merged[k].language = Vf /\ merged[k] \in Range(VfEpisodes))

C9_Witness ==
    /\ fn = "parseEpisodes"
    /\ Len(merged) = 2
    /\ Len(tracks.vf) = 1
    /\ Len(tracks.vostfr) = 2
    /\ merged[1].language = Vostfr
    /\ merged[2].language = Vf

\* C10: a label that contains a token S<1-2 digits>E<1-3 digits> (either
\* case, blanks allowed before the E) parses to the numbers written in its
\* leftmost token, taken at its full extent; a label without a token parses
\* to the absence state.
DigitRunFrom(t, from) ==
    LET ends == {k \in (from - 1)..Len(t) :
                    /\ \A j \in from..k : IsDigit(t[j])
                    /\ (k < Len(t) => ~IsDigit(t[k + 1]))}
    IN  SubSeq(t, from, CHOOSE k \in ends : TRUE)
DigitRunAtEnd(t) ==
    LET starts == {k \in 1..(Len(t) + 1) :
                      /\ \A j \in k..Len(t) : IsDigit(t[j])
                      /\ (k > 1 => ~IsDigit(t[k - 1]))}
    IN  SubSeq(t, CHOOSE k \in starts : TRUE, Len(t))
IsSeasonEpisodeToken(t) ==
    /\ Len(t) >= 4
    /\ t[1] \in {"S", "s"}
    /\ \E d \in 1..2, e \in 1..3 :
           /\ Len(t) >= 2 + d + e
           /\ \A k \in 2..(d + 1) : IsDigit(t[k])
           /\ \A k \in (d + 2)..(Len(t) - e - 1) : IsSpace(t[k])
           /\ t[Len(t) - e] \in {"E", "e"}
           /\ \A k \in (Len(t) - e + 1)..Len(t) : IsDigit(t[k])
TokenSpans(s) ==
    {span \in (DOMAIN s) \X (DOMAIN s) :
        /\ span[1] + 3 <= span[2]
        /\ s[span[1]] \in {"S", "s"}
        /\ IsSeasonEpisodeToken(SubSeq(s, span[1], span[2]))}
WrittenNumbers(s) ==
    LET spans == TokenSpans(s)
    IN  IF spans = {} THEN NoSeasonEpisode
        ELSE LET first == CHOOSE a \in spans :
                              \A b \in spans : a[1] < b[1] \/ (a[1] = b[1] /\ a[2] >= b[2])
                 token == SubSeq(s, first[1], first[2])
             IN  [season |-> Some(DecimalValue(DigitRunFrom(token, 2))),
                  episode |-> Some(DecimalValue(DigitRunAtEnd(token)))]
C10_ParsesTheWrittenNumbers ==
    fn = "parseSeasonEpisode" => parsed = WrittenNumbers(label)

C10_Witness ==
    /\ fn = "parseSeasonEpisode"
    /\ label = <<"s", "0", "1", " ", "e", "1">>
    /\ parsed = [season |-> Some(1), episode |-> Some(1)]

----------------------------------------------------------------------------
(* Properties of the French Stream URL normalizer *)

\* C11: normalizeUqloadUrl maps a bare alphanumeric identifier to the canonical
\* embed URL (host with the provider token, path with the embed marker and the
\* identifier); whatever the input, it returns null or a URL whose host contains
\* the provider token and whose path contains the embed marker.
C11_NormalizedUrlIsAnEmbedOfTheProvider ==
    fn = "normalizeUqloadUrl" =>
        /\ IsAlnumWord(arg) =>
               /\ ret = Some(<<"h", "t", "t", "p", "s", ":", "/", "/", "u", "q", "l", "o", "a", "d", ".", "b", "z", "/", "e", "m", "b", "e", "d", "-">> \o arg \o <<".", "h", "t", "m", "l">>)
               /\ Includes(ParseUrl(ret[1]).pathname, arg)
        /\ ret # Undefined =>
               /\ ParseUrl(ret[1]).ok
               /\ Includes(ParseUrl(ret[1]).hostname, <<"u", "q", "l", "o", "a", "d">>)
               /\ Includes(ParseUrl(ret[1]).pathname, <<"e", "m", "b", "e", "d">>)

C11_Witness ==
    /\ fn = "normalizeUqloadUrl"
    /\ arg = <<"a", "1">>
    /\ ret = Some(<<"h", "t", "t", "p", "s", ":", "/", "/", "u", "q", "l", "o", "a", "d", ".", "b", "z", "/", "e", "m", "b", "e", "d", "-", "a", "1", ".", "h", "t", "m", "l">>)

----------------------------------------------------------------------------
(* Properties of the providers' search *)

Min(a, b) == IF a < b THEN a ELSE b
\* the records the upstream answered with
UpstreamCount ==
    IF arg.provider = "frenchstream" THEN Len(arg.cards)
    ELSE IF arg.json.results = Undefined THEN 0 ELSE Len(arg.json.results[1])

\* C12: for both providers search(query, limit) returns at most `limit` titles:
\* the first `limit` when the upstream answered with more, all of them otherwise.
C12_SearchReturnsAtMostLimit ==
    (fn \in {"YopflixProvider.search", "FrenchStreamProvider.search"} /\ ~ret.threw)
        => Len(ret.value) = Min(arg.limit, UpstreamCount)

----------------------------------------------------------------------------
(* Properties of the entry point and the provider registry *)

RegisteredNames == {<<"y", "o", "p", "f", "l", "i", "x">>, <<"f", "r", "e", "n", "c", "h", "s", "t", "r", "e", "a", "m">>, <<"f", "s">>}

\* C13: getProvider returns the yopflix instance for every name that is neither a
\* registered name nor an alias, the one French Stream instance for "frenchstream"
\* and for "fs", and in every case an object implementing the provider contract.
C13_RegistryFallsBackToYopflix ==
    fn = "main" =>
        /\ ret.provider \in {YopflixInstance, FrenchStreamInstance}
        /\ ret.providerName \notin RegisteredNames => ret.provider = YopflixInstance
        /\ ret.providerName \in {<<"f", "r", "e", "n", "c", "h", "s", "t", "r", "e", "a", "m">>, <<"f", "s">>} => ret.provider = FrenchStreamInstance

Subcommands == {<<"s", "e", "a", "r", "c", "h">>, <<"i", "n", "f", "o">>, <<"l", "i", "s", "t">>, <<"d", "o", "w", "n", "l", "o", "a", "d">>, <<"h", "e", "l", "p">>}
\* every word of the command line is a flag or the value that follows a flag
OnlyFlagsAndValues(argv) ==
    \A k \in DOMAIN argv :
        \/ IsFlag(argv[k])
        \/ k > 1 /\ IsFlag(argv[k - 1]) /\ argv[k] # <<>>

\* C14: a command line without a recognised subcommand, made of flags and their
\* values only (--query psych, --titleId 3235), is dispatched to the download
\* command.
C14_NoSubcommandMeansDownload ==
    (fn = "main" /\ OnlyFlagsAndValues(arg) /\ \A k \in DOMAIN arg : arg[k] \notin Subcommands)
        => ret.handler = "cmdDownload"

----------------------------------------------------------------------------
(* Properties of the title resolution of the download command *)

\* C15: download with --query and without --titleId downloads the first match of
\* the search result list.
C15_QueryDownloadsFirstMatch ==
    (/\ pc = "details"
     /\ args.titleId.kind = "undefined"
     /\ args.query.kind = "string")
        => /\ resolvedId = searchResults[1].id
           /\ showName = searchResults[1].name

----------------------------------------------------------------------------
(* Properties of the French Stream episode blocks *)

\* the player URL of an entry following the backend order uqload, vidzy, netu, voe
FirstAvailable(e) ==
    IF e.uqload # Undefined /\ normalizeUqloadUrl(e.uqload[1]) # Undefined
    THEN normalizeUqloadUrl(e.uqload[1])
    ELSE IF e.vidzy # Undefined THEN e.vidzy
    ELSE IF e.netu # Undefined THEN e.netu
    ELSE e.voe
Playable(entries) ==
    SelectSeq(entries, LAMBDA e : e.ep # <<"0">> /\ FirstAvailable(e) # Undefined)

\* C18: for each language track and episode number the episode's URL is the first
\* one available in the backend priority order (the preferred backend, then the
\* three fallbacks); an entry is dropped only when no backend has a URL for it.
C18_FirstAvailableBackendIsUsed ==
    (fn = "parseEpisodeBlock" /\ arg.block # Undefined)
        => /\ Len(ret) = Len(Playable(arg.block[1]))
           /\ \A k \in DOMAIN ret :
                  /\ k <= Len(Playable(arg.block[1]))
                  /\ ret[k].url = FirstAvailable(Playable(arg.block[1])[k])[1]
                  /\ ret[k].episode = Some(DecimalValue(Playable(arg.block[1])[k].ep))

----------------------------------------------------------------------------
(* Properties of the providers' getDetails *)

\* C16: in the TitleDetails either provider's getDetails returns, the episode
\* identifiers are pairwise distinct, also when the upstream lists one video both
\* at the top level and under the title.
C16_EpisodeIdsAreDistinct ==
    (fn \in {"YopflixProvider.getDetails", "FrenchStreamProvider.getDetails"} /\ ~ret.threw)
        => \A j, k \in DOMAIN ret.value.episodes :
               j # k => ret.value.episodes[j].id # ret.value.episodes[k].id

\* the catalogue number a title path starts with: the digits its last segment
\* begins with
LastSegment(p) ==
    LET parts == Split(p, "/") IN parts[Len(parts)]
HasNumericId(p) == LastSegment(p) # <<>> /\ IsDigit(LastSegment(p)[1])

\* C19: getDetails of the French Stream provider returns an empty episode list
\* when the title path does not start with a numeric catalogue identifier,
\* whatever the page holds.
C19_NoNumericIdNoEpisodes ==
    (fn = "FrenchStreamProvider.getDetails" /\ ~ret.threw /\ ~HasNumericId(arg.titleId))
        => ret.value.episodes = <<>>

====
